---- MODULE Spec2Model ----
(***************************************************************************)
(* SmileCRM voice-command pipeline: audio validation, transcription,      *)
(* language-model extraction, multilingual normalisation, confidence      *)
(* scoring and the guarded auto-commit router.                            *)
(*                                                                         *)
(* Sources: backend/app/api/voice.py, backend/app/services/voice_service.py,*)
(* voice_actions.py, armenian_normalizer.py, voice_ai_service.py.          *)
(*                                                                         *)
(* Conventions                                                             *)
(*  - A Python value is a tagged record: PyNone, PyStr(s), PyNum(m),       *)
(*    PyMissing (a dict key that is not there).  A number is held in       *)
(*    hundredths (PyNum(2000000) is 20000, PyNum(50) is 0.5).              *)
(*  - Strings are TLA+ strings; characters outside ASCII are written with  *)
(*    a script prefix per letter: "^d^r^a^m" is the Cyrillic word for dram,*)
(*    "~d~r~a~m" the Armenian-script one, so that a Latin token is never a *)
(*    substring of a native-script word, as in the source.                 *)
(*  - An IEEE-754 double that takes part in float arithmetic is the pair   *)
(*    [n, d] standing for n/100 + d/(100 * 2^60).                          *)
(***************************************************************************)
EXTENDS Integers, Sequences, FiniteSets, TLC

VARIABLES
    pc,         \* position of the request / call being modelled
    call,       \* the call under way: [fn |-> name, arg |-> inputs]
    ret,        \* what the call returned (or raised)
    store,      \* the external data store
    calls,      \* external calls issued so far, in order
    frame       \* the locals of the request under way

vars == <<pc, call, ret, store, calls, frame>>

-----------------------------------------------------------------------------
(* Python values *)

PyNone == [t |-> "null"]
PyMissing == [t |-> "missing"]
PyStr(s) == [t |-> "str", s |-> s]
PyNum(m) == [t |-> "num", m |-> m]
PyInt(i) == PyNum(100 * i)
PyInf(neg) == [t |-> "inf", neg |-> neg]
PyNaN == [t |-> "nan"]
PyList(items) == [t |-> "list", items |-> items]

\* bool(v)
Truthy(v) ==
    CASE v.t = "str" -> v.s # ""
      [] v.t = "num" -> v.m # 0
      [] v.t = "list" -> v.items # <<>>
      [] v.t \in {"inf", "nan", "dict"} -> TRUE
      [] OTHER -> FALSE

\* d.get(k, default) on a value that may be missing
GetOr(v, default) == IF v = PyMissing THEN default ELSE v

-----------------------------------------------------------------------------
(* IEEE-754 double arithmetic, round to nearest, ties to even.             *)
(* x = n/100 + d/(100 * 2^60); d stays far below 2^60 in every sum formed  *)
(* here, so comparisons decide on n first.                                 *)

RECURSIVE Pow2(_)
Pow2(k) == IF k = 0 THEN 1 ELSE 2 * Pow2(k - 1)

RECURSIVE Pow2Mod100(_)
Pow2Mod100(k) == IF k = 0 THEN 1 ELSE (2 * Pow2Mod100(k - 1)) % 100

Dbl(n, d) == [n |-> n, d |-> d]
FNeg(a) == Dbl(-a.n, -a.d)
FIsNeg(a) == a.n < 0 \/ (a.n = 0 /\ a.d < 0)
FLt(a, b) == a.n < b.n \/ (a.n = b.n /\ a.d < b.d)

\* 2^e <= a, for a >= 0 (2^e written in ten-thousandths)
FGePow2(a, e) ==
    LET t == IF e >= 0 THEN 10000 * Pow2(e) ELSE 10000 \div Pow2(-e)
    IN  a.n * 100 > t \/ (a.n * 100 = t /\ a.d >= 0)

\* the binade of a: 2^e <= a < 2^(e+1)
FBinade(a) == CHOOSE e \in -7..2 : FGePow2(a, e) /\ ~FGePow2(a, e + 1)

\* the spacing of doubles in binade e, in units of 1/(100 * 2^60)
FUlp(e) == 100 * Pow2(e + 8)

\* a modulo that spacing
FRem(a, e) ==
    (Pow2(e + 8) * ((a.n * Pow2Mod100(52 - e)) % 100) + a.d) % FUlp(e)

\* the double nearest to a >= 0.  Below 2^-7 every value formed here is a
\* multiple of the spacing already (its operands are at least 0.05).
FRoundAbs(a) ==
    IF ~FGePow2(a, -7) THEN a
    ELSE LET e    == FBinade(a)
             u    == FUlp(e)
             r    == FRem(a, e)
             r2   == FRem(a, e + 1)
             down == Dbl(a.n, a.d - r)
             up   == Dbl(a.n, a.d - r + u)
         IN  IF r = 0 THEN a
             ELSE IF 2 * r < u THEN down
             ELSE IF 2 * r > u THEN up
             ELSE IF r2 = r THEN down ELSE up

FRound(a) == IF FIsNeg(a) THEN FNeg(FRoundAbs(FNeg(a))) ELSE FRoundAbs(a)

FAdd(a, b) == FRound(Dbl(a.n + b.n, a.d + b.d))
FSub(a, b) == FRound(Dbl(a.n - b.n, a.d - b.d))
FMulInt(k, a) == FRound(Dbl(k * a.n, k * a.d))

\* Python's min(a, b) and max(a, b): the first argument unless the second
\* is strictly smaller (larger)
FMin(a, b) == IF FLt(b, a) THEN b ELSE a
FMax(a, b) == IF FLt(a, b) THEN b ELSE a

\* the literals of _calculate_confidence as doubles
F_0_0 == Dbl(0, 0)
F_0_5 == Dbl(50, 0)
F_0_2 == Dbl(20, 1280)
F_0_15 == Dbl(15, -640)
F_0_1 == Dbl(10, 640)
F_0_05 == Dbl(5, 320)
F_1_0 == Dbl(100, 0)

\* Confidence threshold - do not auto-commit below this
CONFIDENCE_THRESHOLD == Dbl(75, 0)

-----------------------------------------------------------------------------
(* VoiceParseResult and the two scoring functions of api/voice.py *)

VoiceParseResult(text, visit_date, next_visit_date, diagnosis, notes, amount, currency, warnings) ==
    [text |-> text, visit_date |-> visit_date,
     next_visit_date |-> next_visit_date, diagnosis |-> diagnosis,
     notes |-> notes, amount |-> amount, currency |-> currency,
     warnings |-> warnings]

\* result.amount and result.amount > 0
AmountPositive(result) == Truthy(result.amount) /\ result.amount.m > 0

\* the same tags with the visit date consulted before the amount
InferActionVisitFirst(result) ==
    IF Truthy(result.visit_date) THEN "create_visit"
    ELSE IF AmountPositive(result) THEN "create_payment"
    ELSE IF Truthy(result.next_visit_date) THEN "update_visit"
    ELSE IF Truthy(result.diagnosis) THEN "update_patient"
    ELSE IF Truthy(result.notes) THEN "add_note"
    ELSE "unknown"

InferAction(result) ==
    IF AmountPositive(result) THEN "create_payment"
    ELSE IF Truthy(result.visit_date) THEN "create_visit"
    ELSE IF Truthy(result.next_visit_date) THEN "update_visit"
    ELSE IF Truthy(result.diagnosis) THEN "update_patient"
    ELSE IF Truthy(result.notes) THEN "add_note"
    ELSE "unknown"

CalculateConfidence(result) ==
    LET s0 == F_0_5
        s1 == IF AmountPositive(result) THEN FAdd(s0, F_0_2) ELSE s0
        s2 == IF Truthy(result.visit_date) THEN FAdd(s1, F_0_15) ELSE s1
        s3 == IF Truthy(result.next_visit_date) THEN FAdd(s2, F_0_1) ELSE s2
        s4 == IF Truthy(result.diagnosis) THEN FAdd(s3, F_0_15) ELSE s3
        s5 == IF Truthy(result.notes) THEN FAdd(s4, F_0_1) ELSE s4
        s6 == IF Truthy(result.currency) THEN FAdd(s5, F_0_05) ELSE s5
        s7 == FSub(s6, FMulInt(Len(result.warnings), F_0_05))
    IN  FMax(F_0_0, FMin(F_1_0, s7))

-----------------------------------------------------------------------------
(* Strings *)

\* s[i-1:i]: the character at position i (1-based), "" past the end
CharAt(s, i) == IF i >= 1 /\ i <= Len(s) THEN SubSeq(s, i, i) ELSE ""

\* token in text
Contains(text, token) ==
    \E i \in 1..(Len(text) - Len(token) + 1) :
        SubSeq(text, i, i + Len(token) - 1) = token

IsSpace(c) == c \in {" ", "\n", "\t"}

RECURSIVE LStrip(_)
LStrip(s) == IF s # "" /\ IsSpace(CharAt(s, 1)) THEN LStrip(SubSeq(s, 2, Len(s))) ELSE s

RECURSIVE RStrip(_)
RStrip(s) ==
    IF s # "" /\ IsSpace(CharAt(s, Len(s))) THEN RStrip(SubSeq(s, 1, Len(s) - 1)) ELSE s

\* s.strip()
Strip(s) == LStrip(RStrip(s))

UpperLetters == "ABCDEFGHIJKLMNOPQRSTUVWXYZ"
LowerLetters == "abcdefghijklmnopqrstuvwxyz"

UpperToLower ==
    [c \in {CharAt(UpperLetters, i) : i \in 1..26} |->
        CharAt(LowerLetters, CHOOSE i \in 1..26 : CharAt(UpperLetters, i) = c)]

LowerChar(c) == IF c \in DOMAIN UpperToLower THEN UpperToLower[c] ELSE c

\* s.lower()
RECURSIVE Lower(_)
Lower(s) == IF s = "" THEN "" ELSE LowerChar(CharAt(s, 1)) \o Lower(SubSeq(s, 2, Len(s)))

DigitChars == "0123456789"
IsDigit(c) == \E i \in 1..10 : CharAt(DigitChars, i) = c
DigitVal(c) == (CHOOSE i \in 1..10 : CharAt(DigitChars, i) = c) - 1
DigitChar(k) == CharAt(DigitChars, k + 1)

\* s is one or more decimal digits
RECURSIVE AllDigits(_)
AllDigits(s) ==
    /\ s # ""
    /\ IsDigit(CharAt(s, 1))
    /\ (Len(s) = 1 \/ AllDigits(SubSeq(s, 2, Len(s))))

\* int(s) of a digit string
RECURSIVE IntOfDigits(_)
IntOfDigits(s) ==
    IF s = "" THEN 0
    ELSE 10 * IntOfDigits(SubSeq(s, 1, Len(s) - 1)) + DigitVal(CharAt(s, Len(s)))

\* str(k) of a natural number
RECURSIVE StrOfNat(_)
StrOfNat(k) == IF k < 10 THEN DigitChar(k) ELSE StrOfNat(k \div 10) \o DigitChar(k % 10)

RECURSIVE Repeat0(_)
Repeat0(k) == IF k <= 0 THEN "" ELSE "0" \o Repeat0(k - 1)

\* k written with at least w digits (zero padded)
ZeroPad(k, w) == LET s == StrOfNat(k) IN IF Len(s) >= w THEN s ELSE Repeat0(w - Len(s)) \o s

\* s.split(sep)[0]: s up to its first sep
RECURSIVE BeforeFirst(_, _)
BeforeFirst(s, sep) ==
    IF s = "" \/ CharAt(s, 1) = sep THEN ""
    ELSE CharAt(s, 1) \o BeforeFirst(SubSeq(s, 2, Len(s)), sep)

\* s.split(sep)[-1]: s after its last sep
RECURSIVE AfterLast(_, _)
AfterLast(s, sep) ==
    IF s = "" \/ CharAt(s, Len(s)) = sep THEN ""
    ELSE AfterLast(SubSeq(s, 1, Len(s) - 1), sep) \o CharAt(s, Len(s))

RECURSIVE Pow10(_)
Pow10(k) == IF k = 0 THEN 1 ELSE 10 * Pow10(k - 1)

\* the digits of s up to its first character that is no digit
RECURSIVE DigitPrefix(_)
DigitPrefix(s) ==
    IF s # "" /\ IsDigit(CharAt(s, 1))
    THEN CharAt(s, 1) \o DigitPrefix(SubSeq(s, 2, Len(s)))
    ELSE ""

\* the fraction digits f as hundredths (digits after the second are dropped:
\* the inputs used carry at most two)
FracCenti(f) == IntOfDigits(SubSeq(f \o "00", 1, 2))

\* float(s) for a string: [ok, v].  Decimal literals with an optional sign
\* and the words inf, infinity and nan; anything else is a ValueError.
\* (Exponents and digit-group underscores are not modelled.)
FloatOfStr(str) ==
    LET s      == Lower(Strip(str))
        neg    == s # "" /\ CharAt(s, 1) = "-"
        signed == s # "" /\ CharAt(s, 1) \in {"-", "+"}
        body   == IF signed THEN SubSeq(s, 2, Len(s)) ELSE s
        ip     == DigitPrefix(body)
        rest   == SubSeq(body, Len(ip) + 1, Len(body))
        fp     == IF rest # "" /\ CharAt(rest, 1) = "."
                  THEN SubSeq(rest, 2, Len(rest)) ELSE ""
        wellformed ==
            /\ ip # "" \/ fp # ""
            /\ rest = "" \/ (CharAt(rest, 1) = "." /\ (fp = "" \/ AllDigits(fp)))
        mag    == 100 * IntOfDigits(ip) + FracCenti(fp)
    IN  IF body \in {"inf", "infinity"} THEN [ok |-> TRUE, v |-> PyInf(neg)]
        ELSE IF body = "nan" THEN [ok |-> TRUE, v |-> PyNaN]
        ELSE IF wellformed THEN [ok |-> TRUE, v |-> PyNum(IF neg THEN -mag ELSE mag)]
        ELSE [ok |-> FALSE, v |-> PyNone]

\* float(v): numbers as they are, strings parsed, anything else a TypeError
FloatOf(v) ==
    CASE v.t \in {"num", "inf", "nan"} -> [ok |-> TRUE, v |-> v]
      [] v.t = "str" -> FloatOfStr(v.s)
      [] OTHER -> [ok |-> FALSE, v |-> PyNone]

\* x <= 0 for a float
FloatLeZero(x) ==
    CASE x.t = "num" -> x.m <= 0
      [] x.t = "inf" -> x.neg
      [] OTHER -> FALSE

-----------------------------------------------------------------------------
(* Calendar dates.  A date is its proleptic Gregorian ordinal                *)
(* (date.toordinal(): 0001-01-01 is day 1).                                  *)

IsLeap(y) == y % 4 = 0 /\ (y % 100 # 0 \/ y % 400 = 0)

DaysInMonth(y, m) ==
    IF m = 2 THEN (IF IsLeap(y) THEN 29 ELSE 28)
    ELSE IF m \in {4, 6, 9, 11} THEN 30 ELSE 31

\* days before January 1st of year y
DaysBeforeYear(y) == (y - 1) * 365 + (y - 1) \div 4 - (y - 1) \div 100 + (y - 1) \div 400

\* days of year y before the first of month m
RECURSIVE DaysBeforeMonth(_, _)
DaysBeforeMonth(y, m) ==
    IF m = 1 THEN 0 ELSE DaysBeforeMonth(y, m - 1) + DaysInMonth(y, m - 1)

\* date(y, m, d) is a date
ValidYmd(y, m, d) ==
    y \in 1..9999 /\ m \in 1..12 /\ d >= 1 /\ d <= DaysInMonth(y, m)

\* date(y, m, d).toordinal()
Ordinal(y, m, d) == DaysBeforeYear(y) + DaysBeforeMonth(y, m) + d

YearOf(n) ==
    CHOOSE y \in ((n * 400) \div 146097 - 1)..((n * 400) \div 146097 + 2) :
        DaysBeforeYear(y) < n /\ n <= DaysBeforeYear(y + 1)

MonthOf(n) ==
    CHOOSE m \in 1..12 :
        /\ DaysBeforeMonth(YearOf(n), m) < n - DaysBeforeYear(YearOf(n))
        /\ n - DaysBeforeYear(YearOf(n)) <= DaysBeforeMonth(YearOf(n), m) + DaysInMonth(YearOf(n), m)

DayOf(n) == n - DaysBeforeYear(YearOf(n)) - DaysBeforeMonth(YearOf(n), MonthOf(n))

\* date.weekday(): Monday is 0
Weekday(n) == (n + 6) % 7

\* date.isoformat()
IsoFormat(n) ==
    ZeroPad(YearOf(n), 4) \o "-" \o ZeroPad(MonthOf(n), 2) \o "-" \o ZeroPad(DayOf(n), 2)

\* the Monday of ISO week 1 of year y
IsoWeek1Monday(y) ==
    IF Weekday(Ordinal(y, 1, 1)) > 3
    THEN Ordinal(y, 1, 1) - Weekday(Ordinal(y, 1, 1)) + 7
    ELSE Ordinal(y, 1, 1) - Weekday(Ordinal(y, 1, 1))

\* year y has an ISO week 53
HasWeek53(y) ==
    Weekday(Ordinal(y, 1, 1)) = 3 \/ (Weekday(Ordinal(y, 1, 1)) = 2 /\ IsLeap(y))

NoDate == [ok |-> FALSE, ord |-> 0]
ADate(n) == [ok |-> TRUE, ord |-> n]

\* date(y, m, d), or ValueError
MakeDate(y, m, d) == IF ValidYmd(y, m, d) THEN ADate(Ordinal(y, m, d)) ELSE NoDate

\* the ISO week date y-Ww-d
WeekDate(y, w, d) ==
    IF /\ y \in 1..9999 /\ w >= 1 /\ (w <= 52 \/ (w = 53 /\ HasWeek53(y))) /\ d \in 1..7
       /\ IsoWeek1Monday(y) + (w - 1) * 7 + d - 1 \in 1..Ordinal(9999, 12, 31)
    THEN ADate(IsoWeek1Monday(y) + (w - 1) * 7 + d - 1)
    ELSE NoDate

\* the k characters of s from position i (1-based) are digits
DigitsAt(s, i, k) == i + k - 1 <= Len(s) /\ AllDigits(SubSeq(s, i, i + k - 1))

IntAt(s, i, k) == IntOfDigits(SubSeq(s, i, i + k - 1))

\* date.fromisoformat(s) as the interpreters up to 3.10 read it: exactly
\* YYYY-MM-DD
FromIsoFormatStrict(s) ==
    IF /\ Len(s) = 10
       /\ DigitsAt(s, 1, 4) /\ CharAt(s, 5) = "-"
       /\ DigitsAt(s, 6, 2) /\ CharAt(s, 8) = "-"
       /\ DigitsAt(s, 9, 2)
    THEN MakeDate(IntAt(s, 1, 4), IntAt(s, 6, 2), IntAt(s, 9, 2))
    ELSE NoDate

\* the week forms YYYY[-]Www[[-]D], s read from position p (after the W)
FromIsoWeek(s, sep, p) ==
    IF ~DigitsAt(s, p, 2) THEN NoDate
    ELSE IF p + 2 > Len(s) THEN WeekDate(IntAt(s, 1, 4), IntAt(s, p, 2), 1)
    ELSE IF sep /\ CharAt(s, p + 2) # "-" THEN NoDate
    ELSE IF ~DigitsAt(s, p + 2 + (IF sep THEN 1 ELSE 0), 1) THEN NoDate
    ELSE WeekDate(IntAt(s, 1, 4), IntAt(s, p, 2),
                  IntAt(s, p + 2 + (IF sep THEN 1 ELSE 0), 1))

\* the calendar forms YYYY[-]MM[-]DD, s read from position p (the month);
\* what follows the day is not read
FromIsoCalendar(s, sep, p) ==
    IF ~DigitsAt(s, p, 2) THEN NoDate
    ELSE IF sep /\ CharAt(s, p + 2) # "-" THEN NoDate
    ELSE IF ~DigitsAt(s, p + 2 + (IF sep THEN 1 ELSE 0), 2) THEN NoDate
    ELSE MakeDate(IntAt(s, 1, 4), IntAt(s, p, 2),
                  IntAt(s, p + 2 + (IF sep THEN 1 ELSE 0), 2))

\* date.fromisoformat(s) as the interpreters from 3.11 on read it: a string
\* of 7, 8 or 10 characters in a calendar or week form, with or without
\* separators
FromIsoFormatLenient(s) ==
    IF Len(s) \notin {7, 8, 10} \/ ~DigitsAt(s, 1, 4) THEN NoDate
    ELSE IF CharAt(s, 5) = "-"
    THEN (IF CharAt(s, 6) = "W" THEN FromIsoWeek(s, TRUE, 7)
          ELSE FromIsoCalendar(s, TRUE, 6))
    ELSE (IF CharAt(s, 5) = "W" THEN FromIsoWeek(s, FALSE, 6)
          ELSE FromIsoCalendar(s, FALSE, 5))

\* date.fromisoformat(v): a TypeError for what is no string, a ValueError
\* for a string that is no date; which strings are dates depends on the
\* interpreter
Interpreters == {"3.10", "3.11"}

FromIsoFormat(v, interpreter) ==
    IF v.t # "str" THEN NoDate
    ELSE IF interpreter = "3.10" THEN FromIsoFormatStrict(v.s)
    ELSE FromIsoFormatLenient(v.s)

\* _validate_date from the parsed date on
Validated(parsed, today) ==
    IF ~parsed.ok THEN [value |-> PyNone, warnings |-> <<"invalid date format">>]
    ELSE IF parsed.ord < today - 30
    THEN [value |-> PyNone, warnings |-> <<"date too far in the past">>]
    ELSE IF parsed.ord > today + 365
    THEN [value |-> PyNone, warnings |-> <<"date too far in the future">>]
    ELSE [value |-> PyStr(IsoFormat(parsed.ord)), warnings |-> <<>>]

\* voice_service._validate_date(date_str, today): [value, warnings]
ValidateDate(date_str, today, interpreter) ==
    IF ~Truthy(date_str) THEN [value |-> PyNone, warnings |-> <<>>]
    ELSE Validated(FromIsoFormat(date_str, interpreter), today)

\* the clock of the host: date.today().isoformat() and
\* datetime.now().strftime("%d.%m.%Y %H:%M")
TodayIso == "2025-01-06"
NowStamp == "06.01.2025 10:00"

-----------------------------------------------------------------------------
(* Pattern matching on strings, as the regular expressions of the sources   *)
(* use it                                                                   *)

\* s[i-1:j]: the characters at positions i..j that exist
Slice(s, i, j) ==
    IF i > j \/ i > Len(s) \/ j < 1 THEN ""
    ELSE SubSeq(s, IF i < 1 THEN 1 ELSE i, IF j > Len(s) THEN Len(s) ELSE j)

\* w stands in s at position i
StartsAt(s, i, w) == Slice(s, i, i + Len(w) - 1) = w

\* how many digits (\d*) stand in s from position i on
RECURSIVE DigitRun(_, _)
DigitRun(s, i) == IF IsDigit(CharAt(s, i)) THEN 1 + DigitRun(s, i + 1) ELSE 0

\* how many blanks (\s*) stand in s from position i on
RECURSIVE SpaceRun(_, _)
SpaceRun(s, i) == IF IsSpace(CharAt(s, i)) THEN 1 + SpaceRun(s, i + 1) ELSE 0

\* the least position of a set of positions; 0 when there is none
First(positions) ==
    IF positions = {} THEN 0 ELSE CHOOSE i \in positions : \A j \in positions : i <= j

\* s with every `from` character replaced by `to`
RECURSIVE Replace(_, _, _)
Replace(s, from, to) ==
    IF s = "" THEN ""
    ELSE (IF CharAt(s, 1) = from THEN to ELSE CharAt(s, 1))
            \o Replace(SubSeq(s, 2, Len(s)), from, to)

\* "".join(chars)
RECURSIVE Concat(_)
Concat(chars) == IF chars = <<>> THEN "" ELSE Head(chars) \o Concat(Tail(chars))

-----------------------------------------------------------------------------
(* backend/app/services/armenian_normalizer.py: amounts *)

ARMENIAN_NUMBER_WORDS ==
    <<[word |-> "hazar", value |-> 1000], [word |-> "hazari", value |-> 1000],
      [word |-> "hazarov", value |-> 1000], [word |-> "~h~a~z~a~r", value |-> 1000],
      [word |-> "~h~z~r", value |-> 1000],
      [word |-> "million", value |-> 1000000], [word |-> "milion", value |-> 1000000],
      [word |-> "~m~i~l~i~o~n", value |-> 1000000],
      [word |-> "haryur", value |-> 100], [word |-> "~h~a~r~y~o~w~r", value |-> 100]>>

RUSSIAN_NUMBER_WORDS ==
    <<[word |-> "^t^y^s^q^c", value |-> 1000], [word |-> "^t^y^s", value |-> 1000],
      [word |-> "tysyach", value |-> 1000], [word |-> "^m^i^l^l^i^o^n", value |-> 1000000],
      [word |-> "^s^o^t", value |-> 100]>>

ENGLISH_NUMBER_WORDS ==
    <<[word |-> "thousand", value |-> 1000], [word |-> "k", value |-> 1000],
      [word |-> "million", value |-> 1000000], [word |-> "mil", value |-> 1000000],
      [word |-> "m", value |-> 1000000], [word |-> "hundred", value |-> 100]>>

\* d.update(more) on a dict kept as the sequence of its items: a key that is
\* there keeps its place and takes the new value, a new key goes to the end
RECURSIVE Update(_, _)
Update(d, more) ==
    IF more = <<>> THEN d
    ELSE IF \E i \in 1..Len(d) : d[i].word = Head(more).word
    THEN Update([i \in 1..Len(d) |->
                    IF d[i].word = Head(more).word THEN Head(more) ELSE d[i]],
                Tail(more))
    ELSE Update(Append(d, Head(more)), Tail(more))

\* the dictionaries in the order the locale gives them, the locale's own last
ByLocale(locale, english, russian, armenian) ==
    IF locale = "hy" THEN Update(Update(english, russian), armenian)
    ELSE IF locale = "ru" THEN Update(Update(english, armenian), russian)
    ELSE Update(Update(russian, armenian), english)

\* Literal["ru", "hy", "en"]
Locales == {"ru", "hy", "en"}

\* the dictionary of a locale; any other locale reads as "en" does
ForLocale(table, locale) == table[IF locale \in Locales THEN locale ELSE "en"]

\* number_words of normalize_amount, for each locale
NumberWords ==
    [locale \in Locales |->
        ByLocale(locale, ENGLISH_NUMBER_WORDS, RUSSIAN_NUMBER_WORDS, ARMENIAN_NUMBER_WORDS)]

NoMatch == [ok |-> FALSE]

\* (\d{1,3})[.,](\d{3})(?:[.,](\d{3}))?(?!\d) tried at position i with k
\* digits in the first group, with or without the third group
IsSep(c) == c \in {".", ","}

ThousandsAt(s, i, k, third) ==
    /\ DigitRun(s, i) >= k
    /\ IsSep(CharAt(s, i + k))
    /\ DigitRun(s, i + k + 1) >= 3
    /\ IF third
       THEN /\ IsSep(CharAt(s, i + k + 4))
            /\ DigitRun(s, i + k + 5) >= 3
            /\ ~IsDigit(CharAt(s, i + k + 8))
       ELSE ~IsDigit(CharAt(s, i + k + 4))

\* the digits the match yields: the first alternative that matches, the
\* longer first group first, the third group first
ThousandsDigits(s, i) ==
    LET k == CHOOSE k \in 1..3 :
                /\ ThousandsAt(s, i, k, TRUE) \/ ThousandsAt(s, i, k, FALSE)
                /\ \A k2 \in (k + 1)..3 :
                        ~ThousandsAt(s, i, k2, TRUE) /\ ~ThousandsAt(s, i, k2, FALSE)
    IN  IF ThousandsAt(s, i, k, TRUE)
        THEN Slice(s, i, i + k - 1) \o Slice(s, i + k + 1, i + k + 3)
                \o Slice(s, i + k + 5, i + k + 7)
        ELSE Slice(s, i, i + k - 1) \o Slice(s, i + k + 1, i + k + 3)

ThousandsSearch(s) ==
    First({i \in 1..Len(s) :
            \E k \in 1..3 : ThousandsAt(s, i, k, TRUE) \/ ThousandsAt(s, i, k, FALSE)})

\* the length of \d+(?:\.\d+)? at position i
DecimalLen(s, i) ==
    IF CharAt(s, i + DigitRun(s, i)) = "." /\ IsDigit(CharAt(s, i + DigitRun(s, i) + 1))
    THEN DigitRun(s, i) + 1 + DigitRun(s, i + DigitRun(s, i) + 1)
    ELSE DigitRun(s, i)

\* (\d+(?:\.\d+)?)\s* read from every position that holds a digit: the
\* position where the number word has to stand
NumberEnds(s) ==
    [i \in {k \in 1..Len(s) : IsDigit(CharAt(s, k))} |->
        i + DecimalLen(s, i) + SpaceRun(s, i + DecimalLen(s, i))]

\* where (\d+(?:\.\d+)?)\s*word first matches; 0 when it does not
NumberWordSearch(s, ends, word) == First({i \in DOMAIN ends : StartsAt(s, ends[i], word)})

\* --- int(float(decimal) * multiplier), in IEEE-754 double arithmetic ---
\* The decimal is N / 10^d (trailing zeros of its fraction dropped), the
\* multiplier 10^j.  float(decimal) is the double nearest to N / 10^d; the
\* product with the multiplier is rounded to a double once more and int()
\* cuts its fraction off.

RECURSIVE RStripZeros(_)
RStripZeros(f) ==
    IF f # "" /\ CharAt(f, Len(f)) = "0" THEN RStripZeros(SubSeq(f, 1, Len(f) - 1)) ELSE f

\* the fraction digits of a decimal, without trailing zeros
FractionOf(decimal) ==
    IF Contains(decimal, ".") THEN RStripZeros(AfterLast(decimal, ".")) ELSE ""

\* 2^e <= n / den
GePow2(n, den, e) ==
    IF e >= 0 THEN n \div den >= Pow2(e)
    ELSE n >= (den + Pow2(-e) - 1) \div Pow2(-e)

\* floor(log2(n / den)) for n / den > 0
Log2Floor(n, den) == CHOOSE e \in -20..30 : GePow2(n, den, e) /\ ~GePow2(n, den, e + 1)

RECURSIVE Pow2Mod(_, _)
Pow2Mod(k, modulus) == IF k = 0 THEN 1 % modulus ELSE (2 * Pow2Mod(k - 1, modulus)) % modulus

RECURSIVE Log10(_)
Log10(m) == IF m < 10 THEN 0 ELSE 1 + Log10(m \div 10)

\* what float(N / 10^d) leaves of N * 2^k over 10^d when its mantissa
\* (k = 52 - exponent) is cut to an integer
MantissaRest(n, d) ==
    ((n % Pow10(d)) * Pow2Mod(52 - Log2Floor(n, Pow10(d)), Pow10(d))) % Pow10(d)

\* float(N / 10^d) lies below N / 10^d (its mantissa was rounded down)
FloatBelow(n, d) == MantissaRest(n, d) # 0 /\ 2 * MantissaRest(n, d) < Pow10(d)

\* the distance of float(N / 10^d) from N / 10^d, in units of
\* 1 / (10^d * 2^k)
FloatDistance(n, d) ==
    IF FloatBelow(n, d) THEN MantissaRest(n, d) ELSE Pow10(d) - MantissaRest(n, d)

IsPow2(t) == t = Pow2(Log2Floor(t, 1))

\* the product float(N / 10^d) * 10^j, whose exact value is the integer
\* t = N * 10^(j-d), rounds to a double below t
ProductBelow(n, d, j, t) ==
    /\ FloatBelow(n, d)
    /\ (IF IsPow2(t) THEN 4 ELSE 2) * FloatDistance(n, d) * Pow10(j - d)
            > Pow2(Log2Floor(t, 1) - Log2Floor(n, Pow10(d)))

FloatProductInt(n, d, j) ==
    IF n = 0 THEN 0
    ELSE IF d > j THEN n \div Pow10(d - j)
    ELSE IF ProductBelow(n, d, j, n * Pow10(j - d)) THEN n * Pow10(j - d) - 1
    ELSE n * Pow10(j - d)

IntOfProduct(decimal, multiplier) ==
    FloatProductInt(IntOfDigits(BeforeFirst(decimal, ".") \o FractionOf(decimal)),
                    Len(FractionOf(decimal)), Log10(multiplier))

\* the first number word, in dictionary order, that follows a number
RECURSIVE WordMultiplier(_, _, _)
WordMultiplier(s, ends, words) ==
    IF words = <<>> THEN NoMatch
    ELSE IF NumberWordSearch(s, ends, Head(words).word) # 0
    THEN [ok |-> TRUE,
          amount |-> IntOfProduct(
                        Slice(s, NumberWordSearch(s, ends, Head(words).word),
                              NumberWordSearch(s, ends, Head(words).word)
                                + DecimalLen(s, NumberWordSearch(s, ends, Head(words).word)) - 1),
                        Head(words).value)]
    ELSE WordMultiplier(s, ends, Tail(words))

\* the length of \d+(?:[.,]\d+)? at position i
PlainLen(s, i) ==
    IF IsSep(CharAt(s, i + DigitRun(s, i))) /\ IsDigit(CharAt(s, i + DigitRun(s, i) + 1))
    THEN DigitRun(s, i) + 1 + DigitRun(s, i + DigitRun(s, i) + 1)
    ELSE DigitRun(s, i)

PlainSearch(s) == First({i \in 1..Len(s) : IsDigit(CharAt(s, i))})

\* the plain number num_str (its comma already a point) as an amount: three
\* digits after the point are thousands, any other fraction is cut off
PlainAmount(num_str) ==
    IF ~Contains(num_str, ".") THEN IntOfDigits(num_str)
    ELSE IF Len(AfterLast(num_str, ".")) = 3
    THEN IntOfDigits(BeforeFirst(num_str, ".") \o AfterLast(num_str, "."))
    ELSE IntOfDigits(BeforeFirst(num_str, "."))

\* normalize_amount(text, locale): the amount as an integer, or None
NormalizeAmount(text, locale) ==
    LET s == Strip(Lower(text))
        t == ThousandsSearch(s)
        w == WordMultiplier(s, NumberEnds(s), ForLocale(NumberWords, locale))
        p == PlainSearch(s)
    IN  IF s = "" THEN PyNone
        ELSE IF t # 0 THEN PyInt(IntOfDigits(ThousandsDigits(s, t)))
        ELSE IF w.ok THEN PyInt(w.amount)
        ELSE IF p # 0
        THEN PyInt(PlainAmount(Replace(Slice(s, p, p + PlainLen(s, p) - 1), ",", ".")))
        ELSE PyNone

-----------------------------------------------------------------------------
(* backend/app/services/armenian_normalizer.py: currency detection *)

\* any(token in text for token in tokens)
ContainsAny(text, tokens) == \E i \in 1..Len(tokens) : Contains(text, tokens[i])

AMD_TOKENS ==
    <<"~d~r~a~m", "~d~r~a~m~i", "~d~r~a~m~o~v",
      "dram", "drams", "drm", "dramov",
      "amd">>

RUB_TOKENS ==
    <<"^r^u^b", "^r^u^b^l^e^j", "^r^u^b^l^q", "^r^u^b^l^x", "^r^u^b^l^i",
      "ruble", "rubles", "rub">>

USD_TOKENS ==
    <<"~d~o~l~a~r", "~d~o~l~l~a~r",
      "dollar", "dollars", "usd", "$">>

\* the same decision with the RUB tokens consulted before the USD tokens
DetectCurrencyRubFirst(text, locale, default_currency) ==
    LET text_lower == Lower(text)
    IN  IF ContainsAny(text_lower, AMD_TOKENS)
        THEN [currency |-> "AMD",
              warnings |-> IF ContainsAny(text_lower, RUB_TOKENS)
                           THEN <<"both AMD and RUB tokens; using AMD">> ELSE <<>>]
        ELSE IF ContainsAny(text_lower, RUB_TOKENS)
        THEN (IF locale = "hy"
              THEN [currency |-> "AMD", warnings |-> <<"RUB detected but locale is Armenian; using AMD">>]
              ELSE [currency |-> "RUB", warnings |-> <<>>])
        ELSE IF ContainsAny(text_lower, USD_TOKENS)
        THEN [currency |-> "USD", warnings |-> <<>>]
        ELSE IF locale = "hy" \/ default_currency = "AMD"
        THEN [currency |-> "AMD", warnings |-> <<>>]
        ELSE [currency |-> default_currency, warnings |-> <<>>]

\* detect_currency(text, locale, default_currency): [currency, warnings]
DetectCurrency(text, locale, default_currency) ==
    LET text_lower == Lower(text)
    IN  IF ContainsAny(text_lower, AMD_TOKENS)
        THEN [currency |-> "AMD",
              warnings |-> IF ContainsAny(text_lower, RUB_TOKENS)
                           THEN <<"both AMD and RUB tokens; using AMD">> ELSE <<>>]
        ELSE IF ContainsAny(text_lower, USD_TOKENS)
        THEN [currency |-> "USD", warnings |-> <<>>]
        ELSE IF ContainsAny(text_lower, RUB_TOKENS)
        THEN (IF locale = "hy"
              THEN [currency |-> "AMD", warnings |-> <<"RUB detected but locale is Armenian; using AMD">>]
              ELSE [currency |-> "RUB", warnings |-> <<>>])
        ELSE IF locale = "hy" \/ default_currency = "AMD"
        THEN [currency |-> "AMD", warnings |-> <<>>]
        ELSE [currency |-> default_currency, warnings |-> <<>>]

-----------------------------------------------------------------------------
(* backend/app/services/armenian_normalizer.py: dates in the transcript *)

ARMENIAN_DATE_WORDS ==
    <<[word |-> "aysor", value |-> PyInt(0)], [word |-> "aiso", value |-> PyInt(0)],
      [word |-> "vaghe", value |-> PyInt(1)], [word |-> "vagh", value |-> PyInt(1)],
      [word |-> "vaghy", value |-> PyInt(1)],
      [word |-> "verevaghy", value |-> PyInt(2)], [word |-> "mekelor", value |-> PyInt(2)],
      [word |-> "yerkushabti", value |-> PyStr("monday")],
      [word |-> "yerekshapti", value |-> PyStr("tuesday")],
      [word |-> "choreqshapti", value |-> PyStr("wednesday")],
      [word |-> "hingshapti", value |-> PyStr("thursday")],
      [word |-> "urbat", value |-> PyStr("friday")],
      [word |-> "shabat", value |-> PyStr("saturday")],
      [word |-> "kiraki", value |-> PyStr("sunday")],
      [word |-> "erkushabti", value |-> PyStr("monday")],
      [word |-> "erekshabti", value |-> PyStr("tuesday")],
      [word |-> "chorekshabti", value |-> PyStr("wednesday")],
      [word |-> "hingshabti", value |-> PyStr("thursday")],
      [word |-> "erbat", value |-> PyStr("friday")]>>

RUSSIAN_DATE_WORDS ==
    <<[word |-> "segodnya", value |-> PyInt(0)], [word |-> "sevodnya", value |-> PyInt(0)],
      [word |-> "zavtra", value |-> PyInt(1)], [word |-> "poslezavtra", value |-> PyInt(2)],
      [word |-> "ponedelnik", value |-> PyStr("monday")],
      [word |-> "vtornik", value |-> PyStr("tuesday")],
      [word |-> "sreda", value |-> PyStr("wednesday")],
      [word |-> "chetverg", value |-> PyStr("thursday")],
      [word |-> "pyatnica", value |-> PyStr("friday")],
      [word |-> "subbota", value |-> PyStr("saturday")],
      [word |-> "voskresenie", value |-> PyStr("sunday")]>>

ENGLISH_DATE_WORDS ==
    <<[word |-> "today", value |-> PyInt(0)], [word |-> "tomorrow", value |-> PyInt(1)],
      [word |-> "monday", value |-> PyStr("monday")],
      [word |-> "tuesday", value |-> PyStr("tuesday")],
      [word |-> "wednesday", value |-> PyStr("wednesday")],
      [word |-> "thursday", value |-> PyStr("thursday")],
      [word |-> "friday", value |-> PyStr("friday")],
      [word |-> "saturday", value |-> PyStr("saturday")],
      [word |-> "sunday", value |-> PyStr("sunday")]>>

DAY_NAME_TO_WEEKDAY ==
    [monday |-> 0, tuesday |-> 1, wednesday |-> 2, thursday |-> 3, friday |-> 4,
     saturday |-> 5, sunday |-> 6]

\* date_words of parse_armenian_date, for each locale
DateWords ==
    [locale \in Locales |->
        ByLocale(locale, ENGLISH_DATE_WORDS, RUSSIAN_DATE_WORDS, ARMENIAN_DATE_WORDS)]

\* what parse_armenian_date hands back: a date, None, or the exception that
\* left it
DateFound(n) == [raised |-> "", date |-> ADate(n)]
DateNone == [raised |-> "", date |-> NoDate]

\* today + timedelta(days): an OverflowError past 9999-12-31
PlusDays(today, days) ==
    IF today + days > Ordinal(9999, 12, 31)
    THEN [raised |-> "OverflowError", date |-> NoDate]
    ELSE DateFound(today + days)

\* the same count with today standing for its own weekday
WeekdayAheadFromToday(text_lower, today, target_weekday) ==
    LET ahead    == IF target_weekday - Weekday(today) < 0
                    THEN target_weekday - Weekday(today) + 7
                    ELSE target_weekday - Weekday(today)
        has_next == ContainsAny(text_lower, <<"hajord", "sleduyushiy", "next", "hachord">>)
    IN  IF has_next /\ ahead < 7 THEN ahead + 7 ELSE ahead

\* the next day with that weekday, a week further with a "next" word
WeekdayAhead(text_lower, today, target_weekday) ==
    LET ahead    == IF target_weekday - Weekday(today) <= 0
                    THEN target_weekday - Weekday(today) + 7
                    ELSE target_weekday - Weekday(today)
        has_next == ContainsAny(text_lower, <<"hajord", "sleduyushiy", "next", "hachord">>)
    IN  IF has_next /\ ahead < 7 THEN ahead + 7 ELSE ahead

\* the first date word, in dictionary order, that stands in the text
DateWordSearch(text_lower, date_words) ==
    First({k \in 1..Len(date_words) : Contains(text_lower, date_words[k].word)})

\* (?:mech|cherez|through|in)\s*(\d+)\s*(?:or|orov|dney|days?) at position i:
\* the digits of group 1
ThroughAt(s, i) ==
    LET heads == {w \in {"mech", "cherez", "through", "in"} : StartsAt(s, i, w)}
        p     == i + Len(CHOOSE w \in heads : TRUE)
        d     == p + SpaceRun(s, p)
        n     == DigitRun(s, d)
        t     == d + n + SpaceRun(s, d + n)
    IN  IF heads # {} /\ n > 0
           /\ \E w \in {"or", "dney", "day"} : StartsAt(s, t, w)
        THEN [ok |-> TRUE, digits |-> Slice(s, d, d + n - 1)]
        ELSE NoMatch

ThroughSearch(s) == First({i \in 1..Len(s) : ThroughAt(s, i).ok})

RECURSIVE LStripZeros(_)
LStripZeros(digits) ==
    IF Len(digits) > 1 /\ CharAt(digits, 1) = "0"
    THEN LStripZeros(SubSeq(digits, 2, Len(digits))) ELSE digits

\* int(digits) as a count of days; a count of eight digits or more is past
\* every date, as the count of all days up to 9999-12-31 is
DayCount(digits) ==
    IF Len(LStripZeros(digits)) > 7 THEN Ordinal(9999, 12, 31)
    ELSE IntOfDigits(LStripZeros(digits))

armenian_months ==
    <<[word |-> "hunvar", value |-> 1], [word |-> "hunvari", value |-> 1],
      [word |-> "petrar", value |-> 2], [word |-> "petrari", value |-> 2],
      [word |-> "februari", value |-> 2],
      [word |-> "mart", value |-> 3], [word |-> "marti", value |-> 3],
      [word |-> "april", value |-> 4], [word |-> "aprili", value |-> 4],
      [word |-> "mayis", value |-> 5], [word |-> "mayisi", value |-> 5],
      [word |-> "hunis", value |-> 6], [word |-> "hunisi", value |-> 6],
      [word |-> "hulis", value |-> 7], [word |-> "hulisi", value |-> 7],
      [word |-> "ogostos", value |-> 8], [word |-> "ogostosi", value |-> 8],
      [word |-> "september", value |-> 9], [word |-> "septemberi", value |-> 9],
      [word |-> "hoktember", value |-> 10], [word |-> "hoktemberi", value |-> 10],
      [word |-> "noyember", value |-> 11], [word |-> "noyemberi", value |-> 11],
      [word |-> "dektember", value |-> 12], [word |-> "dektemberi", value |-> 12]>>

russian_months ==
    <<[word |-> "yanvar", value |-> 1], [word |-> "fevral", value |-> 2],
      [word |-> "mart", value |-> 3], [word |-> "aprel", value |-> 4],
      [word |-> "may", value |-> 5], [word |-> "iyun", value |-> 6],
      [word |-> "iyul", value |-> 7], [word |-> "avgust", value |-> 8],
      [word |-> "sentyabr", value |-> 9], [word |-> "oktyabr", value |-> 10],
      [word |-> "noyabr", value |-> 11], [word |-> "dekabr", value |-> 12]>>

english_months ==
    <<[word |-> "january", value |-> 1], [word |-> "february", value |-> 2],
      [word |-> "march", value |-> 3], [word |-> "april", value |-> 4],
      [word |-> "may", value |-> 5], [word |-> "june", value |-> 6],
      [word |-> "july", value |-> 7], [word |-> "august", value |-> 8],
      [word |-> "september", value |-> 9], [word |-> "october", value |-> 10],
      [word |-> "november", value |-> 11], [word |-> "december", value |-> 12],
      [word |-> "jan", value |-> 1], [word |-> "feb", value |-> 2],
      [word |-> "mar", value |-> 3], [word |-> "apr", value |-> 4],
      [word |-> "jun", value |-> 6], [word |-> "jul", value |-> 7],
      [word |-> "aug", value |-> 8], [word |-> "sep", value |-> 9],
      [word |-> "oct", value |-> 10], [word |-> "nov", value |-> 11],
      [word |-> "dec", value |-> 12]>>

all_months == Update(Update(english_months, russian_months), armenian_months)

\* \s*[-]?\s* from position i: the position after it
DashRun(s, i) ==
    LET a == i + SpaceRun(s, i)
        b == IF CharAt(s, a) = "-" THEN a + 1 ELSE a
    IN  b + SpaceRun(s, b)

\* (\d{1,2})\s*[-]?\s*month at position i: one or two digits, no third
DayMonthAt(s, i, month_name) ==
    DigitRun(s, i) \in {1, 2} /\ StartsAt(s, DashRun(s, i + DigitRun(s, i)), month_name)

\* month\s*[-]?\s*(\d{1,2}) at position i
MonthDayAt(s, i, month_name) ==
    StartsAt(s, i, month_name) /\ DigitRun(s, DashRun(s, i + Len(month_name))) > 0

\* the day the first match of pattern1 gives; 0 when there is no match
Pattern1Day(s, month_name) ==
    LET i == First({k \in 1..Len(s) : DayMonthAt(s, k, month_name)})
    IN  IF i = 0 THEN 0 ELSE 100 + IntOfDigits(Slice(s, i, i + DigitRun(s, i) - 1))

\* the day the first match of pattern2 gives; 0 when there is no match
Pattern2Day(s, month_name) ==
    LET i == First({k \in 1..Len(s) : MonthDayAt(s, k, month_name)})
        d == DashRun(s, i + Len(month_name))
    IN  IF i = 0 THEN 0
        ELSE 100 + IntOfDigits(Slice(s, d, d + (IF DigitRun(s, d) > 2 THEN 2 ELSE DigitRun(s, d)) - 1))

\* the same date with no step to the year after
ThisYear(today, month, day) == MakeDate(YearOf(today), month, day)

\* date(year, month, day), a year later when that is before today; NoDate
\* for a ValueError
ThisOrNextYear(today, month, day) ==
    IF ~MakeDate(YearOf(today), month, day).ok THEN NoDate
    ELSE IF MakeDate(YearOf(today), month, day).ord < today
    THEN MakeDate(YearOf(today) + 1, month, day)
    ELSE MakeDate(YearOf(today), month, day)

\* what one pattern of one month gives (found is 100 + day, 0 for no match)
MonthPattern(today, month, found) ==
    IF found = 0 \/ found - 100 < 1 \/ found - 100 > 31 THEN NoDate
    ELSE ThisOrNextYear(today, month, found - 100)

\* the loop over all_months from entry k on: pattern1, then pattern2 (neither
\* matches a text the month name is not in)
RECURSIVE MonthSearch(_, _, _)
MonthSearch(s, today, k) ==
    IF k > Len(all_months) THEN NoDate
    ELSE IF ~Contains(s, all_months[k].word) THEN MonthSearch(s, today, k + 1)
    ELSE IF MonthPattern(today, all_months[k].value, Pattern1Day(s, all_months[k].word)).ok
    THEN MonthPattern(today, all_months[k].value, Pattern1Day(s, all_months[k].word))
    ELSE IF MonthPattern(today, all_months[k].value, Pattern2Day(s, all_months[k].word)).ok
    THEN MonthPattern(today, all_months[k].value, Pattern2Day(s, all_months[k].word))
    ELSE MonthSearch(s, today, k + 1)

\* (\d{1,2})[./](\d{1,2})(?:[./](\d{2,4}))? at position i
NumericDateAt(s, i) ==
    LET n1 == DigitRun(s, i)
        m  == i + n1 + 1
        n2 == IF DigitRun(s, m) > 2 THEN 2 ELSE DigitRun(s, m)
        y  == m + n2 + 1
        n3 == IF CharAt(s, m + n2) \in {".", "/"} /\ DigitRun(s, y) >= 2
              THEN (IF DigitRun(s, y) > 4 THEN 4 ELSE DigitRun(s, y)) ELSE 0
    IN  IF n1 \in {1, 2} /\ CharAt(s, i + n1) \in {".", "/"} /\ n2 > 0
        THEN [ok |-> TRUE, day |-> IntOfDigits(Slice(s, i, i + n1 - 1)),
              month |-> IntOfDigits(Slice(s, m, m + n2 - 1)),
              year_str |-> Slice(s, y, y + n3 - 1)]
        ELSE NoMatch

NumericDate(text, today) ==
    LET i    == First({k \in 1..Len(text) : NumericDateAt(text, k).ok})
        m    == NumericDateAt(text, i)
        year == IF IntOfDigits(m.year_str) < 100 THEN IntOfDigits(m.year_str) + 2000
                ELSE IntOfDigits(m.year_str)
    IN  IF i = 0 THEN NoDate
        ELSE IF m.day < 1 \/ m.day > 31 \/ m.month < 1 \/ m.month > 12 THEN NoDate
        ELSE IF m.year_str # "" THEN MakeDate(year, m.month, m.day)
        ELSE ThisOrNextYear(today, m.month, m.day)

\* parse_armenian_date(text, today, locale): no warning is ever recorded
ParseArmenianDate(text, today, locale) ==
    LET text_lower == Strip(Lower(text))
        date_words == ForLocale(DateWords, locale)
        k          == DateWordSearch(text_lower, date_words)
        t          == ThroughSearch(text_lower)
    IN  IF text_lower = "" THEN DateNone
        ELSE IF k # 0 /\ date_words[k].value.t = "num"
        THEN PlusDays(today, date_words[k].value.m \div 100)
        ELSE IF k # 0
        THEN PlusDays(today, WeekdayAhead(text_lower, today,
                                          DAY_NAME_TO_WEEKDAY[date_words[k].value.s]))
        ELSE IF t # 0
        THEN PlusDays(today, DayCount(ThroughAt(text_lower, t).digits))
        ELSE IF MonthSearch(text_lower, today, 1).ok
        THEN [raised |-> "", date |-> MonthSearch(text_lower, today, 1)]
        ELSE [raised |-> "", date |-> NumericDate(text, today)]

-----------------------------------------------------------------------------
(* backend/app/services/armenian_normalizer.py: postprocess_voice_data *)

\* the reply of the language model as json.loads gives it: a dict whose keys
\* may be missing (the replies modelled carry null, a number or a string)
LlmData(visit_date, next_visit_date, diagnosis, notes, amount, currency) ==
    [t |-> "dict", visit_date |-> visit_date, next_visit_date |-> next_visit_date,
     diagnosis |-> diagnosis, notes |-> notes, amount |-> amount, currency |-> currency]

\* the same step with a number in the reply kept as it is when positive
ReplyAmountKept(original_amount, locale) ==
    CASE original_amount.t = "num" ->
            [raised |-> "",
             amount |-> IF original_amount.m > 0 THEN original_amount ELSE PyNone]
      [] original_amount.t = "inf" ->
            IF original_amount.neg THEN [raised |-> "", amount |-> PyNone]
            ELSE [raised |-> "OverflowError", amount |-> PyNone]
      [] original_amount.t = "nan" -> [raised |-> "", amount |-> PyNone]
      [] original_amount.t = "str" ->
            [raised |-> "", amount |-> NormalizeAmount(original_amount.s, locale)]
      [] OTHER -> [raised |-> "", amount |-> PyNone]

\* step 1: result["amount"] of a reply that carries one.  int(inf) is an
\* OverflowError; nan > 0 is false.
ReplyAmount(original_amount, locale) ==
    CASE original_amount.t = "num" ->
            [raised |-> "",
             amount |-> IF original_amount.m > 0 THEN PyInt(original_amount.m \div 100)
                        ELSE PyNone]
      [] original_amount.t = "inf" ->
            IF original_amount.neg THEN [raised |-> "", amount |-> PyNone]
            ELSE [raised |-> "OverflowError", amount |-> PyNone]
      [] original_amount.t = "nan" -> [raised |-> "", amount |-> PyNone]
      [] original_amount.t = "str" ->
            [raised |-> "", amount |-> NormalizeAmount(original_amount.s, locale)]
      [] OTHER -> [raised |-> "", amount |-> PyNone]

\* postprocess_voice_data works on a copy of the reply and a list of
\* warnings; `raised` is the exception that ended it, "" for none
Postprocessing(parsed_data) == [raised |-> "", data |-> parsed_data, warnings |-> <<>>]

WithAmount(r, normalized) ==
    IF normalized.raised # "" THEN [r EXCEPT !.raised = normalized.raised]
    ELSE [r EXCEPT !.data.amount = normalized.amount]

\* 1. Normalize amount if present
AmountStep(r, locale) ==
    IF GetOr(r.data.amount, PyNone) = PyNone THEN r
    ELSE WithAmount(r, ReplyAmount(r.data.amount, locale))

WithSpoken(r, amount) ==
    IF Truthy(amount) /\ amount.m > 0
    THEN [r EXCEPT !.data.amount = amount,
                   !.warnings = Append(@, "Extracted amount from transcript: "
                                            \o StrOfNat(amount.m \div 100))]
    ELSE r

\* Also try to extract amount from transcript if not found
ExtractStep(r, transcript, locale) ==
    IF r.raised = "" /\ GetOr(r.data.amount, PyNone) = PyNone /\ transcript # ""
    THEN WithSpoken(r, NormalizeAmount(transcript, locale))
    ELSE r

WithDetected(r, detected) ==
    IF detected.currency = "AMD" /\ GetOr(r.data.currency, PyNone) = PyStr("RUB")
    THEN [r EXCEPT !.data.currency = PyStr("AMD"),
                   !.warnings = @ \o detected.warnings
                        \o <<"Currency corrected from RUB to AMD based on text analysis">>]
    ELSE IF ~Truthy(GetOr(r.data.currency, PyNone)) /\ Truthy(GetOr(r.data.amount, PyNone))
    THEN [r EXCEPT !.data.currency = PyStr(detected.currency),
                   !.warnings = @ \o detected.warnings]
    ELSE [r EXCEPT !.warnings = @ \o detected.warnings]

\* 2. Detect and normalize currency
CurrencyStep(r, transcript, locale) ==
    IF r.raised = "" /\ transcript # ""
    THEN WithDetected(r, DetectCurrency(transcript, locale, "AMD"))
    ELSE r

\* the sanity check of a date field that reads as a date or does not
SanityChecked(r, date_field, parsed, today) ==
    IF ~parsed.ok
    THEN [r EXCEPT !.data[date_field] = PyNone,
                   !.warnings = Append(@, "Invalid " \o date_field \o " format")]
    ELSE IF parsed.ord < today - 30
    THEN [r EXCEPT !.data[date_field] = PyNone,
                   !.warnings = Append(@, date_field \o " is too far in the past")]
    ELSE IF parsed.ord > today + 365
    THEN [r EXCEPT !.data[date_field] = PyNone,
                   !.warnings = Append(@, date_field \o " is too far in the future")]
    ELSE r

\* 3. Validate and parse dates: a string of ten characters is read as a
\* date, anything else is left as it is
DateStep(r, date_field, today, interpreter) ==
    IF r.raised # "" \/ r.data[date_field] = PyMissing \/ ~Truthy(r.data[date_field])
          \/ r.data[date_field].t # "str" \/ Len(r.data[date_field].s) # 10
    THEN r
    ELSE SanityChecked(r, date_field, FromIsoFormat(r.data[date_field], interpreter), today)

WithHeard(r, heard) ==
    IF heard.raised # "" THEN [r EXCEPT !.raised = heard.raised]
    ELSE IF heard.date.ok THEN [r EXCEPT !.data.visit_date = PyStr(IsoFormat(heard.date.ord))]
    ELSE r

\* Also try to parse dates from transcript for Armenian relative words
HeardStep(r, transcript, today, locale) ==
    IF r.raised = "" /\ transcript # "" /\ ~Truthy(GetOr(r.data.visit_date, PyNone))
    THEN WithHeard(r, ParseArmenianDate(transcript, today, locale))
    ELSE r

\* postprocess_voice_data(transcript, parsed_data, locale, timezone, today):
\* [raised, data, warnings]
PostprocessVoiceData(transcript, parsed_data, locale, today, interpreter) ==
    HeardStep(
        DateStep(
            DateStep(
                CurrencyStep(
                    ExtractStep(AmountStep(Postprocessing(parsed_data), locale),
                                transcript, locale),
                    transcript, locale),
                "visit_date", today, interpreter),
            "next_visit_date", today, interpreter),
        transcript, today, locale)

-----------------------------------------------------------------------------
(* backend/app/services/voice_service.py: normalisation around the model *)

\* _normalize_amount(amount_val): a positive float, or None
VoiceNormalizeAmount(amount_val) ==
    CASE amount_val.t = "num" -> IF amount_val.m > 0 THEN amount_val ELSE PyNone
      [] amount_val.t = "inf" -> IF amount_val.neg THEN PyNone ELSE amount_val
      [] amount_val.t = "str" ->
            LET kept    == SelectSeq([k \in 1..Len(amount_val.s) |-> CharAt(amount_val.s, k)],
                                     LAMBDA c : IsDigit(c) \/ c \in {".", ","})
                cleaned == Replace(Concat(kept), ",", ".")
                val     == FloatOfStr(cleaned)
            IN  IF cleaned # "" /\ val.ok /\ ~FloatLeZero(val.v) /\ val.v.t # "nan"
                THEN val.v ELSE PyNone
      [] OTHER -> PyNone

\* the currency tokens of voice_service.py
VOICE_AMD_TOKENS ==
    <<"dram", "drams", "drm",
      "^d^r^a^m", "^d^r^a^m^a", "^d^r^a^m^o^v", "^d^r^a^m^u", "^d^r^a^m^e", "^d^r^a^m^a^h",
      "amd">>

VOICE_RUB_TOKENS ==
    <<"^r^u^b", "^r^u^b^l^e^j", "^r^u^b^l^q", "^r^u^b^l^x",
      "ruble", "rubles", "rub">>

\* how many characters \w* takes in s from position i on (a letter outside
\* ASCII is its script prefix and the letter)
RECURSIVE WordRun(_, _)
WordRun(s, i) ==
    IF CharAt(s, i) \in {"^", "~"} /\ CharAt(s, i + 1) # "" /\ ~IsSpace(CharAt(s, i + 1))
    THEN 2 + WordRun(s, i + 2)
    ELSE IF CharAt(s, i) # "" /\ (IsDigit(CharAt(s, i)) \/ CharAt(s, i) = "_"
                                     \/ \E k \in 1..26 : CharAt(s, i) \in {CharAt(UpperLetters, k), CharAt(LowerLetters, k)})
    THEN 1 + WordRun(s, i + 1)
    ELSE 0

\* re.compile(re.escape(token) + r'\w*', re.IGNORECASE).sub(to, s), read from
\* position i on; lower is s in lower case
RECURSIVE SubWord(_, _, _, _, _)
SubWord(s, lower, i, token, to) ==
    IF i > Len(s) THEN ""
    ELSE IF StartsAt(lower, i, token)
    THEN to \o SubWord(s, lower, i + Len(token) + WordRun(s, i + Len(token)), token, to)
    ELSE CharAt(s, i) \o SubWord(s, lower, i + 1, token, to)

\* the text with every word that starts with a RUB token, the tokens taken
\* in order, replaced by the word for dram
RECURSIVE CorrectedText(_, _)
CorrectedText(text, k) ==
    IF k > Len(VOICE_RUB_TOKENS) THEN text
    ELSE CorrectedText(SubWord(text, Lower(text), 1, VOICE_RUB_TOKENS[k], "~d^r^a^m"), k + 1)

\* normalize_currency(text, locale, timezone): [currency, corrected_text, warnings]
NormalizeCurrency(text, locale, timezone) ==
    LET text_lower == Lower(text)
        has_amd    == ContainsAny(text_lower, VOICE_AMD_TOKENS)
        has_rub    == ContainsAny(text_lower, VOICE_RUB_TOKENS)
    IN  IF has_amd /\ has_rub
        THEN [currency |-> PyStr("AMD"), corrected_text |-> CorrectedText(text, 1),
              warnings |-> <<"currency corrected to AMD (dram)">>]
        ELSE IF has_amd
        THEN [currency |-> PyStr("AMD"), corrected_text |-> text, warnings |-> <<>>]
        ELSE IF has_rub
        THEN [currency |-> PyStr("RUB"), corrected_text |-> text, warnings |-> <<>>]
        ELSE IF timezone = "Asia/Yerevan" \/ locale = "hy"
        THEN [currency |-> PyStr("AMD"), corrected_text |-> text, warnings |-> <<>>]
        ELSE [currency |-> PyNone, corrected_text |-> text, warnings |-> <<>>]

\* today as parse_voice_text takes it: the override when it reads as a date,
\* the clock of the host otherwise
TodayOf(today_override, interpreter) ==
    IF Truthy(today_override) /\ FromIsoFormat(today_override, interpreter).ok
    THEN FromIsoFormat(today_override, interpreter).ord
    ELSE FromIsoFormatStrict(TodayIso).ord

\* the content of the model's reply is empty or no JSON
InvalidReply == [t |-> "invalid"]

\* Get currency - priority: postprocessed > pre-detected > LLM > default
FinalCurrency(currency, pre_detected_currency, amount) ==
    IF ~Truthy(currency) /\ Truthy(pre_detected_currency) THEN pre_detected_currency
    ELSE IF ~Truthy(currency) /\ Truthy(amount) THEN PyStr("AMD")
    ELSE currency

\* Get normalized amount from postprocessor
FinalAmount(amount) == IF amount # PyNone THEN VoiceNormalizeAmount(amount) ELSE PyNone

\* parse_voice_text from the validated dates on
ParseResult(text, pre, data, post_warnings, visit, next, amount) ==
    VoiceParseResult(text, visit.value, next.value,
                     GetOr(data.diagnosis, PyNone), GetOr(data.notes, PyNone), amount,
                     FinalCurrency(GetOr(data.currency, PyNone), pre.currency, amount),
                     pre.warnings \o post_warnings \o visit.warnings \o next.warnings)

\* parse_voice_text from the postprocessed reply on
Postprocessed(text, pre, post, today, interpreter) ==
    IF post.raised # "" THEN [raised |-> "VoiceServiceError", result |-> PyNone]
    ELSE [raised |-> "",
          result |-> ParseResult(text, pre, post.data, post.warnings,
                        ValidateDate(GetOr(post.data.visit_date, PyNone), today, interpreter),
                        ValidateDate(GetOr(post.data.next_visit_date, PyNone), today,
                                     interpreter),
                        FinalAmount(GetOr(post.data.amount, PyNone)))]

\* parse_voice_text with today settled
ParseOn(text, timezone, today, locale, reply, interpreter) ==
    Postprocessed(text, NormalizeCurrency(text, locale, timezone),
                  PostprocessVoiceData(text, reply, locale, today, interpreter),
                  today, interpreter)

\* parse_voice_text(text, mode, timezone, today_override, locale), the reply
\* of the language model given: [raised, result].  Every exception of the
\* try block leaves as VoiceServiceError.
ParseVoiceText(text, timezone, today_override, locale, reply, interpreter) ==
    IF reply = InvalidReply THEN [raised |-> "VoiceServiceError", result |-> PyNone]
    ELSE ParseOn(text, timezone, TodayOf(today_override, interpreter), locale, reply,
                 interpreter)

\* process_voice on a transcript that is empty after strip(): no field, one
\* warning
EmptyResult ==
    VoiceParseResult("", PyNone, PyNone, PyNone, PyNone, PyNone, PyNone,
                     <<"Cannot recognize speech. Please try again.">>)

-----------------------------------------------------------------------------
(* backend/app/services/voice_ai_service.py: audio validation *)

MAX_FILE_SIZE == 10 * 1024 * 1024

ALLOWED_AUDIO_TYPES ==
    {"audio/webm", "audio/wav", "audio/ogg", "audio/mpeg", "audio/mp4",
     "audio/x-wav", "audio/wave"}

\* filename.lower().split(".")[-1] if "." in filename else ""
Extension(filename) ==
    IF Contains(filename, ".") THEN AfterLast(Lower(filename), ".") ELSE ""

\* the extension of a filename names an audio format
ValidExtension(filename) ==
    Truthy(filename) /\ Extension(filename.s) \in {"webm", "wav", "ogg", "mp3", "m4a"}

\* the same validation with a clip of exactly the ceiling turned away
ValidateAudioFileBelowCeiling(size, content_type, filename) ==
    IF size >= MAX_FILE_SIZE THEN "AudioValidationError"
    ELSE IF size = 0 THEN "AudioValidationError"
    ELSE IF Truthy(content_type)
    THEN (IF Lower(Strip(BeforeFirst(content_type.s, ";"))) \in ALLOWED_AUDIO_TYPES THEN ""
          ELSE IF ValidExtension(filename) THEN ""
          ELSE "AudioValidationError")
    ELSE (IF ValidExtension(filename) THEN "" ELSE "AudioValidationError")

\* validate_audio_file(file_data, content_type, filename), file_data given
\* by its length: "" when it returns, else the exception raised
ValidateAudioFile(size, content_type, filename) ==
    IF size > MAX_FILE_SIZE THEN "AudioValidationError"
    ELSE IF size = 0 THEN "AudioValidationError"
    ELSE IF Truthy(content_type)
    THEN (IF Lower(Strip(BeforeFirst(content_type.s, ";"))) \in ALLOWED_AUDIO_TYPES THEN ""
          ELSE IF ValidExtension(filename) THEN ""
          ELSE "AudioValidationError")
    ELSE (IF ValidExtension(filename) THEN "" ELSE "AudioValidationError")

-----------------------------------------------------------------------------
(* The data store, as the services of backend/app/services reach it.  The   *)
(* store is configured; a call may fail with SupabaseRequestError.          *)

WriteCalls == {"create_visit", "create_payment", "update_patient", "create_medication"}

\* the calls of a log that wrote to the store
Writes(log) == SelectSeq(log, LAMBDA c : c \in WriteCalls)

\* One invocation of the router, threaded through its store calls:
\*   store, calls  the store and the call log so far
\*   fail_at       the store call of this invocation that fails (0: none)
\*   raised        "" or the exception that left the last call
Ctx(s, log, fail_at) == [store |-> s, calls |-> log, fail_at |-> fail_at, raised |-> ""]

\* the store call `name` is issued: it fails when it is the fail_at-th call
Fails(ctx) == Len(ctx.calls) + 1 = ctx.fail_at

Issue(ctx, name, s) ==
    IF Fails(ctx)
    THEN [ctx EXCEPT !.calls = Append(@, name), !.raised = "SupabaseRequestError"]
    ELSE [ctx EXCEPT !.calls = Append(@, name), !.store = s]

\* patients_service.get_patient(patient_id): the row or None
GetPatient(s, patient_id) ==
    IF patient_id \in DOMAIN s.patients THEN s.patients[patient_id] ELSE PyNone

\* visits_service.create_visit: one row inserted into visits
CreateVisit(ctx, doctor_id, patient_id, payload) ==
    LET row == [id |-> Len(ctx.store.visits) + 1, doctor_id |-> doctor_id,
                patient_id |-> patient_id,
                status |-> GetOr(payload.status, PyStr("scheduled")),
                reminder_status |-> PyStr("pending"),
                visit_date |-> payload.visit_date,
                next_visit_date |-> GetOr(payload.next_visit_date, PyNone),
                notes |-> GetOr(payload.notes, PyNone)]
    IN  Issue(ctx, "create_visit", [ctx.store EXCEPT !.visits = Append(@, row)])

\* patient_payments_service.create_payment: one row inserted into patient_payments
CreatePayment(ctx, doctor_id, patient_id, amount, paid_at, comment, currency) ==
    LET row == [id |-> Len(ctx.store.payments) + 1, doctor_id |-> doctor_id,
                patient_id |-> patient_id, amount |-> amount, currency |-> currency,
                comment |-> comment, paid_at |-> paid_at]
    IN  Issue(ctx, "create_payment", [ctx.store EXCEPT !.payments = Append(@, row)])

\* medications_service.create_medication: one row inserted into patient_medications
CreateMedication(ctx, patient_id, doctor_id, name, dosage, comment) ==
    LET row == [id |-> Len(ctx.store.medications) + 1, doctor_id |-> doctor_id,
                patient_id |-> patient_id, name |-> name, dosage |-> dosage,
                comment |-> comment]
    IN  Issue(ctx, "create_medication", [ctx.store EXCEPT !.medications = Append(@, row)])

\* patients_service.update_patient: the rows with this id and doctor_id are
\* updated; when none is, the patient is read back
UpdatePatient(ctx, patient_id, doctor_id, update_data) ==
    LET p    == GetPatient(ctx.store, patient_id)
        hit  == p # PyNone /\ p.doctor_id = doctor_id
        row  == [f \in DOMAIN p |->
                    IF f \in DOMAIN update_data THEN update_data[f] ELSE p[f]]
        ctx1 == Issue(ctx, "update_patient",
                      IF hit THEN [ctx.store EXCEPT !.patients[patient_id] = row]
                      ELSE ctx.store)
    IN  IF ctx1.raised # "" \/ hit THEN ctx1
        ELSE Issue(ctx1, "get_patient", ctx1.store)

-----------------------------------------------------------------------------
(* backend/app/services/voice_actions.py *)

ActionResult(performed_action, updated, warnings, needs_confirmation) ==
    [performed_action |-> performed_action, updated |-> updated,
     warnings |-> warnings, needs_confirmation |-> needs_confirmation]

\* what a handler hands back: the ActionResult it returned, or the exception
\* that left it, with the store and the call log as it leaves them
Returned(ctx, result) ==
    [raised |-> "", result |-> result, store |-> ctx.store, calls |-> ctx.calls]
Raised(ctx, exc) ==
    [raised |-> exc, result |-> PyNone, store |-> ctx.store, calls |-> ctx.calls]

NoneResult(ctx, warnings) == Returned(ctx, ActionResult("none", PyNone, warnings, TRUE))

\* parsed.get(k, {}) or {} followed by .get(field)
Field(parsed, k, field) ==
    IF parsed[k].t = "dict" /\ field \in DOMAIN parsed[k]
    THEN GetOr(parsed[k][field], PyNone)
    ELSE PyNone

\* x or y
Or(x, y) == IF Truthy(x) THEN x ELSE y

\* f"{notes}\n<label>: {text}" when notes is set, else f"<label>: {text}"
Labelled(notes, label, text) ==
    IF Truthy(notes) THEN PyStr(notes.s \o "\n" \o label \o ": " \o text.s)
    ELSE PyStr(label \o ": " \o text.s)

HandleCreateVisit(ctx, doctor_id, patient_id, parsed, warnings) ==
    LET given      == Field(parsed, "visit", "visit_date")
        visit_date == IF Truthy(given) THEN given ELSE PyStr(TodayIso)
        warnings1  == IF Truthy(given) THEN warnings
                      ELSE Append(warnings, "visit date not given - set to today")
        next       == Field(parsed, "visit", "next_visit_date")
        notes0     == Field(parsed, "visit", "notes")
        notes1     == IF Truthy(notes0) THEN notes0 ELSE PyMissing
        meds_text  == Field(parsed, "visit", "medications")
        notes2     == IF Truthy(meds_text) THEN Labelled(notes1, "medications", meds_text)
                      ELSE notes1
        diagnosis  == GetOr(parsed.diagnosis, PyNone)
        notes3     == IF Truthy(diagnosis) THEN Labelled(notes2, "diagnosis", diagnosis)
                      ELSE notes2
        payload    == [visit_date |-> visit_date,
                       next_visit_date |-> IF Truthy(next) THEN next ELSE PyMissing,
                       notes |-> notes3, status |-> PyMissing]
        ctx1       == CreateVisit(ctx, doctor_id, patient_id, payload)
    IN  IF ctx1.raised # "" THEN Raised(ctx1, ctx1.raised)
        ELSE Returned(ctx1, ActionResult("create_visit",
                 [table |-> "visits", patient_id |-> patient_id,
                  id |-> Len(ctx1.store.visits), visit_date |-> visit_date],
                 warnings1, FALSE))

\* a check of ownership that lets every doctor through
OwnsAny(patient, doctor_id) == TRUE

\* Verify doctor ownership
Owns(patient, doctor_id) == patient.doctor_id = doctor_id

HandleAddNote(ctx, doctor_id, patient_id, parsed, warnings) ==
    LET note_text == Or(GetOr(parsed.note, PyNone),
                        Or(Field(parsed, "visit", "notes"), GetOr(parsed.notes, PyNone)))
        ctx1      == Issue(ctx, "get_patient", ctx.store)
        patient   == GetPatient(ctx.store, patient_id)
        current   == IF Truthy(patient.notes) THEN patient.notes.s ELSE ""
        new_notes == Strip(current \o "\n\n[" \o NowStamp \o "] " \o note_text.s)
        ctx2      == UpdatePatient(ctx1, patient_id, doctor_id, [notes |-> PyStr(new_notes)])
    IN  IF ~Truthy(note_text)
        THEN NoneResult(ctx, Append(warnings, "note text is empty"))
        ELSE IF ctx1.raised # "" THEN Raised(ctx1, ctx1.raised)
        ELSE IF patient = PyNone THEN Raised(ctx1, "VoiceActionError")
        ELSE IF ~Owns(patient, doctor_id) THEN Raised(ctx1, "VoiceActionError")
        ELSE IF ctx2.raised # "" THEN Raised(ctx2, ctx2.raised)
        ELSE Returned(ctx2, ActionResult("add_note",
                 [table |-> "patients", patient_id |-> patient_id, field |-> "notes"],
                 warnings, FALSE))

\* the same handler with the notes consulted before the next-visit date
HandleUpdateVisitNotesFirst(ctx, doctor_id, patient_id, parsed, warnings) ==
    IF Truthy(Field(parsed, "visit", "notes"))
    THEN HandleAddNote(ctx, doctor_id, patient_id,
                       [t |-> "dict", note |-> Field(parsed, "visit", "notes"),
                        notes |-> PyMissing, visit |-> PyMissing], warnings)
    ELSE IF Truthy(Field(parsed, "visit", "next_visit_date"))
    THEN Returned(CreateVisit(ctx, doctor_id, patient_id,
                      [visit_date |-> Field(parsed, "visit", "next_visit_date"),
                       next_visit_date |-> PyMissing, notes |-> PyMissing,
                       status |-> PyStr("scheduled")]),
                  ActionResult("schedule_visit",
                      [table |-> "visits", patient_id |-> patient_id,
                       id |-> Len(ctx.store.visits) + 1,
                       visit_date |-> Field(parsed, "visit", "next_visit_date")],
                      warnings, FALSE))
    ELSE NoneResult(ctx, Append(warnings, "no data to update the visit"))

HandleUpdateVisit(ctx, doctor_id, patient_id, parsed, warnings) ==
    LET next    == Field(parsed, "visit", "next_visit_date")
        notes   == Field(parsed, "visit", "notes")
        payload == [visit_date |-> next, next_visit_date |-> PyMissing,
                    notes |-> IF Truthy(notes) THEN notes ELSE PyMissing,
                    status |-> PyStr("scheduled")]
        ctx1    == CreateVisit(ctx, doctor_id, patient_id, payload)
        as_note == [t |-> "dict", note |-> notes, notes |-> PyMissing, visit |-> PyMissing]
    IN  IF Truthy(next)
        THEN IF ctx1.raised # "" THEN Raised(ctx1, ctx1.raised)
             ELSE Returned(ctx1, ActionResult("schedule_visit",
                      [table |-> "visits", patient_id |-> patient_id,
                       id |-> Len(ctx1.store.visits), visit_date |-> next],
                      warnings, FALSE))
        ELSE IF Truthy(notes)
        THEN HandleAddNote(ctx, doctor_id, patient_id, as_note, warnings)
        ELSE NoneResult(ctx, Append(warnings, "no data to update the visit"))

\* _handle_create_payment once create_payment has returned or raised
Paid(ctx1, patient_id, amount, currency, warnings) ==
    IF ctx1.raised # "" THEN Raised(ctx1, ctx1.raised)
    ELSE Returned(ctx1, ActionResult("create_payment",
             [table |-> "patient_payments", patient_id |-> patient_id,
              id |-> Len(ctx1.store.payments), amount |-> amount,
              currency |-> currency],
             warnings, FALSE))

\* _handle_create_payment from float(amount) on
PayAmount(ctx, doctor_id, patient_id, f, currency, comment, paid_at, warnings) ==
    IF ~f.ok
    THEN NoneResult(ctx, Append(warnings, "invalid amount"))
    ELSE IF FloatLeZero(f.v)
    THEN NoneResult(ctx, Append(warnings, "amount must be positive"))
    ELSE Paid(CreatePayment(ctx, doctor_id, patient_id, f.v, paid_at, comment, currency),
              patient_id, f.v, currency, warnings)

HandleCreatePayment(ctx, doctor_id, patient_id, parsed, warnings) ==
    IF ~Truthy(Field(parsed, "payment", "amount"))
    THEN NoneResult(ctx, Append(warnings, "payment amount not given"))
    ELSE PayAmount(ctx, doctor_id, patient_id,
                   FloatOf(Field(parsed, "payment", "amount")),
                   Or(Field(parsed, "payment", "currency"), PyStr("AMD")),
                   Field(parsed, "payment", "comment"),
                   Or(Field(parsed, "visit", "visit_date"), PyStr(TodayIso)),
                   warnings)

\* the same handler with the update issued before the fields are looked at
HandleUpdatePatientWriteFirst(ctx, doctor_id, patient_id, parsed, warnings) ==
    LET d0     == GetOr(parsed.diagnosis, PyNone)
        d1     == Field(parsed, "patient", "diagnosis")
        status == Field(parsed, "patient", "status")
        diag   == IF Truthy(d1) THEN d1 ELSE d0
        update_data ==
            IF Truthy(diag) /\ Truthy(status) THEN [diagnosis |-> diag, status |-> status]
            ELSE IF Truthy(diag) THEN [diagnosis |-> diag]
            ELSE [status |-> status]
        ctx1   == UpdatePatient(ctx, patient_id, doctor_id, update_data)
    IN  IF ctx1.raised # "" THEN Raised(ctx1, ctx1.raised)
        ELSE IF ~Truthy(diag) /\ ~Truthy(status)
        THEN NoneResult(ctx1, Append(warnings, "no data to update the patient"))
        ELSE Returned(ctx1, ActionResult("update_patient",
                 [table |-> "patients", patient_id |-> patient_id,
                  fields |-> DOMAIN update_data],
                 warnings, FALSE))

HandleUpdatePatient(ctx, doctor_id, patient_id, parsed, warnings) ==
    LET d0     == GetOr(parsed.diagnosis, PyNone)
        d1     == Field(parsed, "patient", "diagnosis")
        status == Field(parsed, "patient", "status")
        diag   == IF Truthy(d1) THEN d1 ELSE d0
        update_data ==
            IF Truthy(diag) /\ Truthy(status) THEN [diagnosis |-> diag, status |-> status]
            ELSE IF Truthy(diag) THEN [diagnosis |-> diag]
            ELSE [status |-> status]
        ctx1   == UpdatePatient(ctx, patient_id, doctor_id, update_data)
    IN  IF ~Truthy(diag) /\ ~Truthy(status)
        THEN NoneResult(ctx, Append(warnings, "no data to update the patient"))
        ELSE IF ctx1.raised # "" THEN Raised(ctx1, ctx1.raised)
        ELSE Returned(ctx1, ActionResult("update_patient",
                 [table |-> "patients", patient_id |-> patient_id,
                  fields |-> DOMAIN update_data],
                 warnings, FALSE))

\* meds_text.replace("\n", ",").split(","): the pieces between separators
RECURSIVE SplitMeds(_, _)
SplitMeds(s, piece) ==
    IF s = "" THEN <<piece>>
    ELSE IF CharAt(s, 1) \in {",", "\n"}
    THEN <<piece>> \o SplitMeds(SubSeq(s, 2, Len(s)), "")
    ELSE SplitMeds(SubSeq(s, 2, Len(s)), piece \o CharAt(s, 1))

Med(name, dose, frequency, duration, comment) ==
    [t |-> "dict", name |-> name, dose |-> dose, frequency |-> frequency,
     duration |-> duration, comment |-> comment]

\* [{"name": m.strip()} for m in ... if m.strip()]
RECURSIVE NamedMeds(_)
NamedMeds(pieces) ==
    IF pieces = <<>> THEN <<>>
    ELSE LET name == Strip(Head(pieces))
         IN  (IF name # "" THEN <<Med(PyStr(name), PyMissing, PyMissing, PyMissing, PyMissing)>>
              ELSE <<>>) \o NamedMeds(Tail(pieces))

\* ", ".join(parts) over the dose, frequency and duration that are set
Dosage(med) ==
    LET parts == SelectSeq(<<GetOr(med.dose, PyNone), GetOr(med.frequency, PyNone),
                             GetOr(med.duration, PyNone)>>, Truthy)
    IN  IF parts = <<>> THEN PyNone
        ELSE IF Len(parts) = 1 THEN PyStr(parts[1].s)
        ELSE IF Len(parts) = 2 THEN PyStr(parts[1].s \o ", " \o parts[2].s)
        ELSE PyStr(parts[1].s \o ", " \o parts[2].s \o ", " \o parts[3].s)

\* the loop over medications: one create_medication per named dict, until
\* one raises.  Returns the context and the rows created.
RECURSIVE CreateMeds(_, _, _, _, _)
CreateMeds(ctx, doctor_id, patient_id, meds, created) ==
    IF meds = <<>> \/ ctx.raised # "" THEN [ctx |-> ctx, created |-> created]
    ELSE LET med == Head(meds)
         IN  IF med.t # "dict" \/ ~Truthy(GetOr(med.name, PyNone))
             THEN CreateMeds(ctx, doctor_id, patient_id, Tail(meds), created)
             ELSE LET ctx1 == CreateMedication(ctx, patient_id, doctor_id, med.name,
                                               Dosage(med), GetOr(med.comment, PyNone))
                  IN  CreateMeds(ctx1, doctor_id, patient_id, Tail(meds),
                                 IF ctx1.raised # "" THEN created
                                 ELSE Append(created, med.name))

HandleAddMedications(ctx, doctor_id, patient_id, parsed, warnings) ==
    LET given     == GetOr(parsed.medications, PyList(<<>>))
        meds_text == Field(parsed, "visit", "medications")
        meds      == IF ~Truthy(given) /\ Truthy(meds_text)
                     THEN PyList(NamedMeds(SplitMeds(meds_text.s, "")))
                     ELSE given
        done      == CreateMeds(ctx, doctor_id, patient_id,
                                IF meds.t = "list" THEN meds.items ELSE <<>>, <<>>)
    IN  IF ~Truthy(meds)
        THEN NoneResult(ctx, Append(warnings, "medication list is empty"))
        ELSE IF done.ctx.raised # "" THEN Raised(done.ctx, done.ctx.raised)
        ELSE IF done.created = <<>>
        THEN NoneResult(done.ctx, Append(warnings, "could not add medications"))
        ELSE Returned(done.ctx, ActionResult("add_medication",
                 [table |-> "patient_medications", patient_id |-> patient_id,
                  count |-> Len(done.created), medications |-> done.created],
                 warnings, FALSE))

HandledActions ==
    {"create_visit", "update_visit", "create_payment", "update_patient",
     "add_note", "add_medication"}

\* the try block of apply_voice_action: the handler of the action tag
Dispatch(ctx, doctor_id, patient_id, parsed, action) ==
    CASE action = "create_visit" -> HandleCreateVisit(ctx, doctor_id, patient_id, parsed, <<>>)
      [] action = "update_visit" -> HandleUpdateVisit(ctx, doctor_id, patient_id, parsed, <<>>)
      [] action = "create_payment" -> HandleCreatePayment(ctx, doctor_id, patient_id, parsed, <<>>)
      [] action = "update_patient" -> HandleUpdatePatient(ctx, doctor_id, patient_id, parsed, <<>>)
      [] action = "add_note" -> HandleAddNote(ctx, doctor_id, patient_id, parsed, <<>>)
      [] action = "add_medication" -> HandleAddMedications(ctx, doctor_id, patient_id, parsed, <<>>)
      [] action = "unknown" ->
            Returned(ctx, ActionResult("unknown", PyNone, <<"command not recognised">>, TRUE))
      [] OTHER ->
            Returned(ctx, ActionResult("unknown", PyNone, <<"unknown command">>, TRUE))

\* a gate that opens at 0.5
BelowHalf(confidence) == FLt(confidence, F_0_5)

\* confidence < CONFIDENCE_THRESHOLD
BelowThreshold(confidence) == FLt(confidence, CONFIDENCE_THRESHOLD)

\* the exception leaves as it was raised
Unwrapped(out) == out

\* every exception that leaves the try block leaves as VoiceActionError
Wrapped(out) == IF out.raised # "" THEN [out EXCEPT !.raised = "VoiceActionError"] ELSE out

\* apply_voice_action(doctor_id, patient_id, parsed) on store s with call log
\* log
ApplyVoiceAction(s, log, fail_at, doctor_id, patient_id, parsed) ==
    IF BelowThreshold(GetOr(parsed.confidence, F_0_0))
    THEN Returned(Ctx(s, log, fail_at),
                  ActionResult("none", PyNone, <<"low confidence">>, TRUE))
    ELSE Wrapped(Dispatch(Ctx(s, log, fail_at), doctor_id, patient_id, parsed,
                          GetOr(parsed.action, PyStr("unknown")).s))

-----------------------------------------------------------------------------
(* Inputs of the function-level specification *)

MaxWarnings == 26

RECURSIVE Repeat(_, _)
Repeat(x, k) == IF k = 0 THEN <<>> ELSE <<x>> \o Repeat(x, k - 1)

OptText == {PyNone, PyStr(""), PyStr("x")}

ScoreInputs ==
    { VoiceParseResult("t", v, n, d, no, a, c, Repeat("w", w)) :
        v \in {PyNone, PyStr("2025-01-06")}, n \in {PyNone, PyStr("2025-01-20")},
        d \in {PyNone, PyStr("caries")}, no \in {PyNone, PyStr("x")},
        a \in {PyNone, PyInt(0), PyInt(20000)}, c \in {PyNone, PyStr("AMD")},
        w \in 0..MaxWarnings }

InferInputs ==
    { VoiceParseResult("t", v, n, d, no, a, PyNone, <<>>) :
        v \in OptText, n \in OptText, d \in OptText, no \in OptText,
        a \in {PyNone, PyInt(0), PyInt(-5), PyNum(50), PyInt(20000)} }

\* --- _validate_date ---

\* the days between a date and today that the calls try
DateOffsets == {-400, -31, -30, -29, -1, 0, 1, 364, 365, 366, 400}

Todays == {Ordinal(2025, 1, 6), Ordinal(2024, 2, 29)}

\* YYYY-MM-DD without its separators
Compact(iso) == SubSeq(iso, 1, 4) \o SubSeq(iso, 6, 7) \o SubSeq(iso, 9, 10)

NoDateInputs ==
    {PyNone, PyMissing, PyStr(""), PyInt(2025), PyStr("25-12-2025"), PyStr("2025-02-30"),
     PyStr("2025-13-01"), PyStr("2025-1-6"), PyStr("tomorrow"), PyStr(" 2025-01-06"),
     PyStr("2025/01/06"), PyStr("2025-01-06T10:00"), PyStr("0000-01-01"),
     PyStr("2023-02-29"), PyStr("2025-01-00")}

OtherIsoInputs ==
    {PyStr("2025-W02-1"), PyStr("2025W021"), PyStr("2025-W02"), PyStr("2025010699"),
     PyStr("2024-W09-4"), PyStr("2099-W01-1"), PyStr("2025-W99-1")}

DateInputs(today) ==
    {PyStr(IsoFormat(today + k)) : k \in DateOffsets}
    \cup {PyStr(Compact(IsoFormat(today + k))) : k \in DateOffsets}
    \cup NoDateInputs \cup OtherIsoInputs

ValidateDateCalls ==
    UNION {{[fn |-> "_validate_date",
             arg |-> [date_str |-> d, today |-> t, interpreter |-> i]] :
                d \in DateInputs(t), i \in Interpreters} : t \in Todays}

\* --- detect_currency ---

CurrencyTexts ==
    {"", "payment 50000", "300000 dram", "20000 dramov", "50 drm", "100 AMD", "5 Drams",
     "300 ~h~a~z~a~r ~d~r~a~m", "~D~R~A~M~I", "100 ~d~r~a~m~o~v",
     "5000 ruble", "5000 rubles", "500 RUB", "5000 ^r^u^b", "5000 ^r^u^b^l^e^j",
     "2 ^r^u^b^l^q", "1 ^R^U^B^L^X", "^r^u^b^l^i",
     "100 dollars", "1 dollar", "50 USD", "$20", "5 ~d~o~l~a~r", "5 ~d~o~l~l~a~r",
     "300 dram rubles", "300 ~d~r~a~m ^r^u^b^l^e^j", "100 usd dram", "100 usd rub",
     "100 amd usd rub", "20000 ^d^r^a^m", "20000 ^d^r^a^m ^r^u^b^l^e^j",
     "drama club", "dr am", "ru b"}

DetectCurrencyCalls ==
    {[fn |-> "detect_currency", arg |-> [text |-> t, locale |-> l, default_currency |-> d]] :
        t \in CurrencyTexts, l \in {"hy", "ru", "en"}, d \in {"AMD", "USD", "EUR"}}

\* --- validate_audio_file ---

ContentTypes ==
    {PyNone, PyStr("")}
    \cup {PyStr(t) : t \in ALLOWED_AUDIO_TYPES}
    \cup {PyStr("audio/webm;codecs=opus"), PyStr("Audio/WAV ; x=1"), PyStr(" audio/ogg"),
           PyStr("video/mp4"), PyStr("audio/flac"), PyStr("text/plain; audio/wav"),
           PyStr(";audio/wav"), PyStr("application/octet-stream")}

Filenames ==
    {PyNone, PyStr(""), PyStr("a.webm"), PyStr("a.wav"), PyStr("a.ogg"), PyStr("a.mp3"),
     PyStr("a.m4a"), PyStr("A.WAV"), PyStr("a.b.mp3"), PyStr("a.flac"), PyStr("a.txt"),
     PyStr("wav"), PyStr("a.wav.exe"), PyStr("a."), PyStr(".ogg"), PyStr("a.mp4")}

AudioSizes == {0, 1, 100, MAX_FILE_SIZE - 1, MAX_FILE_SIZE, MAX_FILE_SIZE + 1}

ValidateAudioCalls ==
    {[fn |-> "validate_audio_file",
      arg |-> [size |-> n, content_type |-> c, filename |-> f]] :
        n \in AudioSizes, c \in ContentTypes, f \in Filenames}

\* --- parse_armenian_date ---

\* utterances with a relative day word, a weekday name, both, a "next"
\* word, a count of days, a month, a numeric date, and with none of them
DateTexts ==
    {"", "hello", "vaghe", "zavtra", "tomorrow", "Today", "aysor", "poslezavtra",
     "vaghe friday", "friday vaghe", "zavtra friday", "zavtra pyatnica", "vaghe urbat",
     "tomorrow friday", "today kiraki", "segodnya sunday", "aysor vtornik",
     "monday", "tuesday", "wednesday", "thursday", "friday", "saturday", "sunday",
     "urbat", "pyatnica", "kiraki", "v subbota",
     "next monday", "next friday", "next sunday", "hajord urbat", "hachord urbat",
     "sleduyushiy vtornik", "Next Wednesday",
     "in 3 days", "cherez 2 dney", "5 january", "25.12", "25.12.2025",
     "friday in 3 days", "in 3 days 5 january", "5 january 25.12", "in 3 weeks",
     "6 january", "12 january", "january 7", "7 hunvari", "7 yanvar", "05.01", "06.01",
     "9/1", "25.12.2024", "25.12.24", "05.01.2025", "31.02", "30 february", "29.02",
     "29 february", "32.01", "15.13", "0.5",
     "mech 3 or", "through 10 days", "in 1 week"}

\* a Monday and the six days after it
WeekOfTodays == {Ordinal(2025, 1, 6) + d : d \in 0..6}

\* the leap day and the day after it, and utterances of the days around
LeapTodays == {Ordinal(2024, 2, 29), Ordinal(2024, 3, 1)}

LeapTexts == {"29.02", "29 february", "28.02", "1 march", "29.02.2023"}

ParseDateCalls ==
    {[fn |-> "parse_armenian_date", arg |-> [text |-> t, today |-> d, locale |-> l]] :
        t \in DateTexts, d \in WeekOfTodays, l \in Locales}
    \cup {[fn |-> "parse_armenian_date", arg |-> [text |-> t, today |-> d, locale |-> "en"]] :
            t \in LeapTexts, d \in LeapTodays}

\* --- normalize_amount ---

\* amounts written with thousands groups, with a multiplier word, plainly,
\* with two forms or two multiplier words at once, and texts with no digits
AmountTexts ==
    {"", "  ", "abc", "dram", "payment",
     "300.000 dram", "300,000 AMD", "25,000", "1.234.567", "1.000",
     "300 hazar dram", "300 hazar", "300k", "1 million", "2 million", "50 tysyach",
     "3 hundred", "1.5 thousand", "1.5 million", "2.3 hundred", "2.3 haryur", "4.35 hundred",
     "pay 300 hazar now", "3 ~h~a~z~a~r", "5 ^t^y^s",
     "300.000 hazar", "2 hazar 300.000", "20 5 hazar", "7 5.000",
     "7", "20000 dramov", "25.50", "25.5", "1,5", "0", "tooth 36",
     "12 mart", "5 kopeks",
     "5 hazar 3 thousand", "3 thousand 5 hazar", "5 hazar 3 tysyach", "3 tysyach 5 hazar",
     "5 tysyach 3 thousand", "3 thousand 5 tysyach"}

NormalizeAmountCalls ==
    {[fn |-> "normalize_amount", arg |-> [text |-> t, locale |-> l]] :
        t \in AmountTexts, l \in Locales}

FnCalls ==
    {[fn |-> "_infer_action_from_data", arg |-> r] : r \in InferInputs}
    \cup {[fn |-> "_calculate_confidence", arg |-> r] : r \in ScoreInputs}
    \cup ValidateDateCalls \cup DetectCurrencyCalls \cup ValidateAudioCalls
    \cup ParseDateCalls \cup NormalizeAmountCalls

\* a store the pure functions never reach
NoStore == [patients |-> <<>>, visits |-> <<>>, payments |-> <<>>, medications |-> <<>>]

\* a call that keeps no locals between steps
NoFrame ==
    [text |-> PyNone, reply |-> PyNone, result |-> PyNone, parsed |-> PyNone,
     applied |-> FALSE, raised |-> "", failed |-> FALSE]

InitFn ==
    /\ pc = "call"
    /\ call \in FnCalls
    /\ ret = PyNone
    /\ store = NoStore
    /\ calls = <<>>
    /\ frame = NoFrame

Returns(fn, value) ==
    /\ pc = "call"
    /\ call.fn = fn
    /\ pc' = "done"
    /\ ret' = value
    /\ UNCHANGED <<call, store, calls, frame>>

CallInferAction == Returns("_infer_action_from_data", PyStr(InferAction(call.arg)))

CallCalculateConfidence == Returns("_calculate_confidence", CalculateConfidence(call.arg))

CallValidateDate ==
    Returns("_validate_date",
            ValidateDate(call.arg.date_str, call.arg.today, call.arg.interpreter))

CallDetectCurrency ==
    Returns("detect_currency",
            DetectCurrency(call.arg.text, call.arg.locale, call.arg.default_currency))

CallValidateAudioFile ==
    Returns("validate_audio_file",
            [raised |-> ValidateAudioFile(call.arg.size, call.arg.content_type,
                                          call.arg.filename)])

CallParseArmenianDate ==
    Returns("parse_armenian_date",
            ParseArmenianDate(call.arg.text, call.arg.today, call.arg.locale))

\* normalize_amount hands back the amount and its list of warnings, to
\* which nothing is ever appended
CallNormalizeAmount ==
    Returns("normalize_amount",
            [amount |-> NormalizeAmount(call.arg.text, call.arg.locale), warnings |-> <<>>])

NextFn ==
    \/ CallInferAction
    \/ CallCalculateConfidence
    \/ CallValidateDate
    \/ CallDetectCurrency
    \/ CallValidateAudioFile
    \/ CallParseArmenianDate
    \/ CallNormalizeAmount

SpecFn == InitFn /\ [][NextFn]_vars

-----------------------------------------------------------------------------
(* The router called directly: apply_voice_action on every family of parsed *)
(* records, at confidences on both sides of the threshold, on stores where  *)
(* the patient is the doctor's, another doctor's or missing, with and       *)
(* without a failing store call.                                            *)

\* the most store calls one invocation is let to fail at
MaxFailAt == 2

Patient(doctor_id, notes) ==
    [t |-> "dict", id |-> "p1", doctor_id |-> doctor_id, notes |-> notes,
     diagnosis |-> PyNone, status |-> PyStr("in_progress")]

StoreWith(patients) ==
    [patients |-> patients, visits |-> <<>>, payments |-> <<>>, medications |-> <<>>]

Stores ==
    {StoreWith([p \in {"p1"} |-> Patient("d1", PyNone)]),
     StoreWith([p \in {"p1"} |-> Patient("d1", PyStr("old"))]),
     StoreWith([p \in {"p1"} |-> Patient("d2", PyNone)]),
     StoreWith(<<>>)}

Parsed(action, confidence, visit, payment, patient, diagnosis, medications, note, notes) ==
    [t |-> "dict", action |-> action, confidence |-> confidence, visit |-> visit,
     payment |-> payment, patient |-> patient, diagnosis |-> diagnosis,
     medications |-> medications, note |-> note, notes |-> notes]

Visit(visit_date, next_visit_date, notes, medications) ==
    [t |-> "dict", visit_date |-> visit_date, next_visit_date |-> next_visit_date,
     notes |-> notes, medications |-> medications]

Payment(amount, currency, comment) ==
    [t |-> "dict", amount |-> amount, currency |-> currency, comment |-> comment]

OptDate == {PyNone, PyStr("2025-01-10")}
OptNote == {PyNone, PyStr("n")}

VisitInputs ==
    {PyMissing, PyNone}
    \cup {Visit(v, n, no, m) : v \in OptDate, n \in {PyNone, PyStr("2025-02-10")},
                               no \in OptNote, m \in {PyNone, PyStr("amox")}}

AmountInputs ==
    {PyNone, PyMissing, PyInt(0), PyInt(20000), PyInt(-5), PyNum(50),
     PyStr(""), PyStr("abc"), PyStr("150.5"), PyStr(" 20000 "), PyStr("-3"),
     PyStr("inf"), PyStr("-inf"), PyStr("NaN"), PyStr("1.2.3"),
     PyInf(FALSE), PyInf(TRUE), PyNaN, PyList(<<PyInt(5)>>)}

PaymentInputs ==
    {PyMissing, PyNone}
    \cup {Payment(a, c, PyNone) : a \in AmountInputs, c \in {PyNone, PyStr("RUB")}}

MedListInputs ==
    {PyMissing, PyNone, PyList(<<>>),
     PyList(<<Med(PyStr("amox"), PyStr("500mg"), PyNone, PyStr("5d"), PyNone)>>),
     PyList(<<Med(PyStr("amox"), PyMissing, PyMissing, PyMissing, PyMissing),
              Med(PyStr("ibu"), PyStr("200mg"), PyStr("2x"), PyStr("3d"), PyStr("c"))>>),
     PyList(<<Med(PyNone, PyStr("1"), PyNone, PyNone, PyNone), PyStr("amox")>>),
     PyList(<<PyStr("amox"), Med(PyStr("ibu"), PyNone, PyStr("2x"), PyNone, PyNone)>>)}

MedTextInputs == {PyNone, PyStr("amox"), PyStr("amox, ibu\nnim"), PyStr(" ,\n")}

\* the parsed records, without their confidence
ParsedInputs ==
    {Parsed(PyStr(a), PyMissing, v, PyMissing, PyMissing, d, PyMissing, PyMissing, PyMissing) :
        a \in {"create_visit", "update_visit"}, v \in VisitInputs,
        d \in {PyMissing, PyStr("caries")}}
    \cup {Parsed(PyStr("create_payment"), PyMissing, v, p, PyMissing, PyNone, PyMissing,
                  PyMissing, PyMissing) :
        v \in {PyMissing, Visit(PyStr("2025-01-10"), PyNone, PyNone, PyNone)},
        p \in PaymentInputs}
    \cup {Parsed(PyStr("update_patient"), PyMissing, PyMissing, PyMissing, pt, d, PyMissing,
                  PyMissing, PyMissing) :
        pt \in {PyMissing, PyNone}
                \cup {[t |-> "dict", diagnosis |-> pd, status |-> ps] :
                        pd \in {PyNone, PyStr("pulpitis")}, ps \in {PyNone, PyStr("done")}},
        d \in {PyMissing, PyNone, PyStr("caries")}}
    \cup {Parsed(PyStr("add_note"), PyMissing, v, PyMissing, PyMissing, PyMissing, PyMissing,
                  n, ns) :
        v \in {PyMissing, Visit(PyNone, PyNone, PyStr("vn"), PyNone)},
        n \in {PyMissing, PyNone, PyStr(""), PyStr("note")},
        ns \in {PyMissing, PyStr("ns")}}
    \cup {Parsed(PyStr("add_medication"), PyMissing, v, PyMissing, PyMissing, PyMissing, m,
                  PyMissing, PyMissing) :
        v \in {PyMissing} \cup {Visit(PyNone, PyNone, PyNone, mt) : mt \in MedTextInputs},
        m \in MedListInputs}
    \cup {Parsed(a, PyMissing, Visit(PyStr("2025-01-10"), PyNone, PyStr("n"), PyNone),
                  Payment(PyInt(20000), PyStr("AMD"), PyNone), PyMissing, PyStr("caries"),
                  PyMissing, PyStr("note"), PyMissing) :
        a \in {PyMissing, PyStr("unknown"), PyStr("delete_patient")}}

\* confidences around the threshold; 0.7499999999999999 is the double just
\* below 0.75
ConfidenceInputs == {PyMissing, F_0_0, Dbl(75, -12800), Dbl(75, 0), F_1_0}

ActionCalls ==
    {[fn |-> "apply_voice_action",
      arg |-> [doctor_id |-> "d1", patient_id |-> "p1",
               parsed |-> [p EXCEPT !.confidence = c],
               store |-> s, fail_at |-> f]] :
        p \in ParsedInputs, c \in ConfidenceInputs, s \in Stores, f \in 0..MaxFailAt}

InitAction ==
    /\ pc = "call"
    /\ call \in ActionCalls
    /\ ret = PyNone
    /\ store = call.arg.store
    /\ calls = <<>>
    /\ frame = NoFrame

\* a call that reaches the store returns or raises, and leaves the store and
\* the call log as `out` has them
Leaves(fn, out) ==
    /\ pc = "call"
    /\ call.fn = fn
    /\ pc' = "done"
    /\ ret' = [raised |-> out.raised, result |-> out.result]
    /\ store' = out.store
    /\ calls' = out.calls
    /\ UNCHANGED <<call, frame>>

CallApplyVoiceAction ==
    Leaves("apply_voice_action",
           ApplyVoiceAction(store, calls, call.arg.fail_at, call.arg.doctor_id,
                            call.arg.patient_id, call.arg.parsed))

NextAction == CallApplyVoiceAction

SpecAction == InitAction /\ [][NextAction]_vars

-----------------------------------------------------------------------------
(* POST /voice/auto-parse (backend/app/api/voice.py, auto_parse_voice): one  *)
(* request from its admission to its response.  The request waits at three  *)
(* places: "request" (before the patient is read), "stt" (the clip is with   *)
(* the speech-to-text provider), "llm" (the prompt is with the language      *)
(* model); "commit" is the request with its parse result in hand.            *)

MAX_AUDIO_SIZE == 25 * 1024 * 1024

Timezones == {"Asia/Yerevan", "Europe/Moscow"}

AutoParseCall(s, patient_id, size, timezone, locale, today, auto_commit, configured) ==
    [fn |-> "auto_parse_voice",
     arg |-> [doctor_id |-> "d1", patient_id |-> patient_id, size |-> size,
              timezone |-> timezone, locale |-> locale, today |-> today,
              auto_commit |-> auto_commit, configured |-> configured, store |-> s]]

OwnPatient == StoreWith([p \in {"p1"} |-> Patient("d1", PyNone)])

\* requests that pass the admission, and requests that fail each check of it
AutoParseCalls ==
    {AutoParseCall(OwnPatient, "p1", 5000, tz, l, PyNone, TRUE, TRUE) :
        tz \in Timezones, l \in Locales}
    \cup {AutoParseCall(OwnPatient, "p1", 5000, "Asia/Yerevan", "ru", t, c, TRUE) :
            t \in {PyNone, PyStr("2025-02-01"), PyStr("soon")}, c \in BOOLEAN}
    \cup {AutoParseCall(s, "p1", 5000, "Asia/Yerevan", "hy", PyNone, TRUE, TRUE) : s \in Stores}
    \cup {AutoParseCall(OwnPatient, "p1", n, "Asia/Yerevan", "en", PyNone, TRUE, TRUE) :
            n \in {0, 99, 100, MAX_AUDIO_SIZE, MAX_AUDIO_SIZE + 1}}
    \cup {AutoParseCall(OwnPatient, "p1", 5000, "Asia/Yerevan", "ru", PyNone, TRUE, FALSE)}

\* what the speech-to-text provider may answer
Transcriptions ==
    {"", " \n", "vizit zavtra", " oplata 20000 dram\n",
     "^o^p^l^a^t^a 20000 ^d^r^a^m ^r^u^b^l^e^j",
     "~v~c~a~r 300 ~h~a~z~a~r ~d~r~a~m", "paid 150 rubles", "~d~r~a~m ^r^u^b",
     "diagnosis caries tooth 36", "next visit 25.12", "note only", "Paid 20 K AMD",
     "visit 5 january", "mech 3 or"}

\* what the language model may answer
LlmReplies ==
    {InvalidReply,
     LlmData(PyMissing, PyMissing, PyMissing, PyMissing, PyMissing, PyMissing),
     LlmData(PyNone, PyNone, PyNone, PyNone, PyInt(20000), PyStr("RUB")),
     LlmData(PyNone, PyNone, PyNone, PyNone, PyInt(20000), PyNone),
     LlmData(PyStr("2025-01-07"), PyStr("2025-02-01"), PyStr("caries"), PyStr("n"),
             PyNone, PyNone),
     LlmData(PyStr("2025010699"), PyNone, PyStr("caries"), PyStr("n"), PyNone, PyNone),
     LlmData(PyStr("2024-12-06"), PyNone, PyStr("caries"), PyStr("n"), PyNone, PyNone),
     LlmData(PyNone, PyNone, PyStr("pulpit"), PyStr("x"), PyNone, PyNone),
     LlmData(PyNone, PyNone, PyNone, PyStr("call back"), PyNone, PyNone),
     LlmData(PyNone, PyStr("2025-02-01"), PyStr("caries"), PyStr("n"), PyNone, PyNone),
     LlmData(PyMissing, PyMissing, PyMissing, PyMissing, PyStr("20 hazar"), PyStr("USD")),
     LlmData(PyNone, PyNone, PyNone, PyNone, PyNum(50), PyStr("EUR")),
     LlmData(PyNone, PyNone, PyNone, PyNone, PyInf(FALSE), PyNone),
     LlmData(PyStr("2025-01-07"), PyNone, PyNone, PyStr("n"), PyInt(100), PyStr("AMD")),
     LlmData(PyNone, PyNone, PyNone, PyNone, PyInt(100), PyStr("GBP")),
     LlmData(PyNone, PyNone, PyNone, PyNone, PyNum(15075), PyStr("AMD")),
     LlmData(PyNone, PyNone, PyNone, PyNone, PyNum(-500), PyNone),
     LlmData(PyNone, PyNone, PyNone, PyNone, PyInt(0), PyNone),
     LlmData(PyNone, PyNone, PyNone, PyNone, PyStr("0.5"), PyNone),
     LlmData(PyNone, PyNone, PyNone, PyNone, PyStr("abc"), PyNone)}

HttpError(status) == [status |-> status]

\* auto_parse_voice up to the call of process_voice: the status it answers
\* with, 200 when the clip goes on to transcription
Admission(arg) ==
    IF GetPatient(arg.store, arg.patient_id) = PyNone THEN 404
    ELSE IF GetPatient(arg.store, arg.patient_id).doctor_id # arg.doctor_id THEN 403
    ELSE IF arg.size > MAX_AUDIO_SIZE THEN 413
    ELSE IF arg.size < 100 THEN 400
    ELSE IF ~arg.configured THEN 503
    ELSE 200

Init ==
    /\ pc = "request"
    /\ call \in AutoParseCalls
    /\ ret = PyNone
    /\ store = call.arg.store
    /\ calls = <<>>
    /\ frame = NoFrame

\* the request ends with an HTTP error
Rejects(status) ==
    /\ pc' = "done"
    /\ ret' = HttpError(status)
    /\ UNCHANGED frame

\* the patient is read and the clip checked; a failing read of the patient
\* leaves the handler as an unhandled exception, a failing read of the
\* upload is answered with 400
Admit ==
    /\ pc = "request"
    /\ calls' = Append(calls, "get_patient")
    /\ \E fault \in {"", "store", "upload"} :
          IF fault = "store" THEN Rejects(500)
          ELSE IF Admission(call.arg) \in {404, 403} THEN Rejects(Admission(call.arg))
          ELSE IF fault = "upload" THEN Rejects(400)
          ELSE IF Admission(call.arg) # 200 THEN Rejects(Admission(call.arg))
          ELSE pc' = "stt" /\ UNCHANGED <<ret, frame>>
    /\ UNCHANGED <<call, store>>

\* the same test that lets no transcription end the pipeline early
NeverBlank(text) == FALSE

\* if not text.strip()
Blank(text) == Strip(text) = ""

\* process_voice with the transcription in hand: an empty one ends the
\* pipeline with EmptyResult, any other goes to the language model
Heard(text) ==
    /\ frame' = [frame EXCEPT !.text = PyStr(text),
                              !.result = IF Blank(text) THEN EmptyResult ELSE PyNone]
    /\ pc' = IF Blank(text) THEN "commit" ELSE "llm"
    /\ UNCHANGED ret

\* the speech-to-text provider answers, or the call fails
Transcribe ==
    /\ pc = "stt"
    /\ calls' = Append(calls, "stt")
    /\ \/ Rejects(500)
       \/ \E response \in Transcriptions : Heard(Strip(response))
    /\ UNCHANGED <<call, store>>

\* parse_voice_text has returned or raised, given that reply
Parsed_(reply, out) ==
    IF out.raised # "" THEN Rejects(500)
    ELSE /\ pc' = "commit"
         /\ frame' = [frame EXCEPT !.reply = reply, !.result = out.result]
         /\ UNCHANGED ret

\* the language model answers (InvalidReply: or the call fails)
Parse ==
    /\ pc = "llm"
    /\ calls' = Append(calls, "llm")
    /\ \E reply \in LlmReplies, interpreter \in Interpreters :
          Parsed_(reply, ParseVoiceText(frame.text.s, call.arg.timezone, call.arg.today,
                                        call.arg.locale, reply, interpreter))
    /\ UNCHANGED <<call, store>>

\* the payment fields as they are, whatever the action
Unguarded(inferred_action, value) == value

\* GUARD: Clear payment data for non-payment actions
Guard(inferred_action, value) ==
    IF inferred_action # "create_payment" THEN PyNone ELSE value

\* parsed_data of auto_parse_voice
ParsedData(result, patient_id) ==
    [t |-> "dict",
     action |-> PyStr(InferAction(result)),
     confidence |-> CalculateConfidence(result),
     visit |-> Visit(result.visit_date, result.next_visit_date, result.notes, PyNone),
     payment |-> Payment(Guard(InferAction(result), result.amount),
                         Guard(InferAction(result), result.currency), PyNone),
     diagnosis |-> result.diagnosis,
     patient |-> [t |-> "dict", first_name |-> PyNone, last_name |-> PyNone,
                  phone |-> PyNone, patient_id |-> PyStr(patient_id)],
     medications |-> PyMissing, note |-> PyMissing, notes |-> PyMissing]

AutoParseResponse(result, parsed, action_result, needs_confirmation) ==
    [status |-> 200, ok |-> TRUE, transcript |-> result.text, parsed |-> parsed,
     confidence |-> parsed.confidence, result |-> action_result,
     needs_confirmation |-> needs_confirmation]

\* the response when apply_voice_action was called and returned or raised:
\* a VoiceActionError is answered in the response, any other exception
\* with status 500; `failed` tells that a store call of it failed
Applied(result, parsed, needs, out, failed) ==
    [applied |-> TRUE, parsed |-> parsed, store |-> out.store, calls |-> out.calls,
     raised |-> out.raised, failed |-> failed,
     response |->
        IF out.raised \notin {"", "VoiceActionError"} THEN HttpError(500)
        ELSE IF out.raised # ""
        THEN AutoParseResponse(result, parsed,
                ActionResult("error", PyNone, <<out.raised>> \o result.warnings, TRUE),
                TRUE)
        ELSE AutoParseResponse(result, parsed,
                ActionResult(out.result.performed_action, out.result.updated,
                             out.result.warnings \o result.warnings,
                             out.result.needs_confirmation),
                needs \/ out.result.needs_confirmation)]

\* the response when it was not called
NotApplied(result, parsed, needs, s) ==
    [applied |-> FALSE, parsed |-> parsed, store |-> s, calls |-> <<>>,
     raised |-> "", failed |-> FALSE,
     response |->
        AutoParseResponse(result, parsed,
            ActionResult("none", PyNone,
                         (IF needs THEN <<"low confidence: check the data">> ELSE <<>>)
                            \o result.warnings,
                         TRUE),
            needs)]

\* the fail_at-th store call of the invocation was issued, and failed
Failed(out, fail_at) == fail_at \in 1..Len(out.calls)

Called_(result, parsed, needs, out, fail_at) ==
    Applied(result, parsed, needs, out, Failed(out, fail_at))

\* the same decision without the auto_commit flag
DecideByConfidence(arg, result, parsed, needs, s, fail_at) ==
    IF ~needs
    THEN Called_(result, parsed, needs,
                 ApplyVoiceAction(s, <<>>, fail_at, arg.doctor_id, arg.patient_id, parsed),
                 fail_at)
    ELSE NotApplied(result, parsed, needs, s)

\* auto_parse_voice with parsed_data built
Decide(arg, result, parsed, needs, s, fail_at) ==
    IF arg.auto_commit /\ ~needs
    THEN Called_(result, parsed, needs,
                 ApplyVoiceAction(s, <<>>, fail_at, arg.doctor_id, arg.patient_id, parsed),
                 fail_at)
    ELSE NotApplied(result, parsed, needs, s)

Scored(arg, result, parsed, s, fail_at) ==
    Decide(arg, result, parsed, FLt(parsed.confidence, CONFIDENCE_THRESHOLD), s, fail_at)

\* auto_parse_voice from the parse result on: the response, with the store
\* and the store calls of apply_voice_action when it was called
AutoCommit(arg, result, s, fail_at) ==
    Scored(arg, result, ParsedData(result, arg.patient_id), s, fail_at)

Responds(out) ==
    /\ pc' = "done"
    /\ ret' = out.response
    /\ store' = out.store
    /\ calls' = calls \o out.calls
    /\ frame' = [frame EXCEPT !.parsed = out.parsed, !.applied = out.applied,
                              !.raised = out.raised, !.failed = out.failed]
    /\ UNCHANGED call

\* the action is inferred, guarded, scored and, when confident, applied; a
\* store call of apply_voice_action may fail
Commit ==
    /\ pc = "commit"
    /\ \E fail_at \in 0..MaxFailAt :
          Responds(AutoCommit(call.arg, frame.result, store, fail_at))

Next == Admit \/ Transcribe \/ Parse \/ Commit

Spec == Init /\ [][Next]_vars

-----------------------------------------------------------------------------
(* Properties of the scoring functions (SpecFn) *)

Returned_(fn) == pc = "done" /\ call.fn = fn

\* a field is present: neither null nor empty
Present(v) == v # PyNone /\ v # PyStr("")

\* amount > 0
Positive(amount) == amount # PyNone /\ amount.m > 0

\* C4: _infer_action_from_data returns the first tag that applies in the
\* order create_payment (amount > 0), create_visit (visit date),
\* update_visit (next-visit date), update_patient (diagnosis), add_note
\* (notes), unknown.
C4_InferPriority ==
    Returned_("_infer_action_from_data") =>
        ret.s = (IF Positive(call.arg.amount) THEN "create_payment"
                 ELSE IF Present(call.arg.visit_date) THEN "create_visit"
                 ELSE IF Present(call.arg.next_visit_date) THEN "update_visit"
                 ELSE IF Present(call.arg.diagnosis) THEN "update_patient"
                 ELSE IF Present(call.arg.notes) THEN "add_note"
                 ELSE "unknown")

\* a result with a positive amount and a visit date went to create_payment
C4_Witness ==
    /\ Returned_("_infer_action_from_data")
    /\ Positive(call.arg.amount)
    /\ Present(call.arg.visit_date)
    /\ ret = PyStr("create_payment")

\* the score of the formula, in hundredths, before and after clamping
NominalScore(r) ==
    50 + (IF Positive(r.amount) THEN 20 ELSE 0)
       + (IF Present(r.visit_date) THEN 15 ELSE 0)
       + (IF Present(r.next_visit_date) THEN 10 ELSE 0)
       + (IF Present(r.diagnosis) THEN 15 ELSE 0)
       + (IF Present(r.notes) THEN 10 ELSE 0)
       + (IF Present(r.currency) THEN 5 ELSE 0)
       - 5 * Len(r.warnings)

Clamped(n) == IF n < 0 THEN 0 ELSE IF n > 100 THEN 100 ELSE n

\* C10: _calculate_confidence equals 0.5 + 0.2 (amount > 0) + 0.15 (visit
\* date) + 0.1 (next-visit date) + 0.15 (diagnosis) + 0.1 (notes) + 0.05
\* (currency) - 0.05 per warning, clamped to [0,1]: the value returned is
\* the double of that number, and lies in [0,1].
C10_ConfidenceFormula ==
    Returned_("_calculate_confidence") =>
        /\ ret = FRound(Dbl(Clamped(NominalScore(call.arg)), 0))
        /\ ~FLt(ret, F_0_0)
        /\ ~FLt(F_1_0, ret)

\* v is a date written YYYY-MM-DD
WrittenIso(v) ==
    /\ v.t = "str"
    /\ Len(v.s) = 10
    /\ AllDigits(SubSeq(v.s, 1, 4)) /\ SubSeq(v.s, 5, 5) = "-"
    /\ AllDigits(SubSeq(v.s, 6, 7)) /\ SubSeq(v.s, 8, 8) = "-"
    /\ AllDigits(SubSeq(v.s, 9, 10))
    /\ ValidYmd(IntOfDigits(SubSeq(v.s, 1, 4)), IntOfDigits(SubSeq(v.s, 6, 7)),
                IntOfDigits(SubSeq(v.s, 9, 10)))

\* the day a date written YYYY-MM-DD names
WrittenOrdinal(v) ==
    Ordinal(IntOfDigits(SubSeq(v.s, 1, 4)), IntOfDigits(SubSeq(v.s, 6, 7)),
            IntOfDigits(SubSeq(v.s, 9, 10)))

\* today - 30 days <= v <= today + 365 days
InWindow(v, today) ==
    WrittenIso(v) /\ today - 30 <= WrittenOrdinal(v) /\ WrittenOrdinal(v) <= today + 365

\* C5: _validate_date(d, today) returns an ISO date d with today - 30 days
\* <= d <= today + 365 days (bounds included) unchanged and without a
\* warning, so that checking the result again changes nothing; every other
\* non-empty value comes back absent with exactly one warning.
C5_ValidateDateWindow ==
    Returned_("_validate_date") =>
        IF InWindow(call.arg.date_str, call.arg.today)
        THEN /\ ret = [value |-> call.arg.date_str, warnings |-> <<>>]
             /\ ValidateDate(ret.value, call.arg.today, call.arg.interpreter) = ret
        ELSE Truthy(call.arg.date_str) =>
                ret.value = PyNone /\ Len(ret.warnings) = 1

\* the text of the call holds one of the tokens
TextHas(tokens) == ContainsAny(Lower(call.arg.text), tokens)

\* C6: detect_currency decides in this order: AMD tokens present -> AMD
\* (with a warning when RUB tokens are present too); else USD tokens ->
\* USD; else RUB tokens -> RUB, but AMD with a warning under locale hy;
\* else, with no token, AMD under locale hy and the caller's default
\* otherwise.
C6_DetectCurrencyOrder ==
    Returned_("detect_currency") =>
        IF TextHas(AMD_TOKENS)
        THEN ret.currency = "AMD" /\ (TextHas(RUB_TOKENS) => Len(ret.warnings) >= 1)
        ELSE IF TextHas(USD_TOKENS) THEN ret.currency = "USD"
        ELSE IF TextHas(RUB_TOKENS)
        THEN (IF call.arg.locale = "hy"
              THEN ret.currency = "AMD" /\ Len(ret.warnings) >= 1
              ELSE ret.currency = "RUB")
        ELSE ret.currency = (IF call.arg.locale = "hy" THEN "AMD"
                             ELSE call.arg.default_currency)

\* USD and RUB tokens together, no AMD token: USD was returned
C6_Witness ==
    /\ Returned_("detect_currency")
    /\ ~TextHas(AMD_TOKENS) /\ TextHas(USD_TOKENS) /\ TextHas(RUB_TOKENS)
    /\ call.arg.locale = "ru"
    /\ ret.currency = "USD"

\* the declared MIME type, stripped of its parameters, is an accepted one
MimeAccepted(content_type) ==
    /\ content_type.t = "str"
    /\ Lower(Strip(BeforeFirst(content_type.s, ";"))) \in
            {"audio/webm", "audio/wav", "audio/ogg", "audio/mpeg", "audio/mp4",
             "audio/x-wav", "audio/wave"}

\* the extension of the filename is an accepted one
ExtensionAccepted(filename) ==
    /\ filename.t = "str"
    /\ Contains(filename.s, ".")
    /\ AfterLast(Lower(filename.s), ".") \in {"webm", "wav", "ogg", "mp3", "m4a"}

\* C9: validate_audio_file accepts a clip if and only if 0 < size <= ceiling
\* and the declared MIME type is in the accepted set or the filename
\* extension is in {webm, wav, ogg, mp3, m4a}; otherwise it raises
\* AudioValidationError; it has no side effect.
C9_AudioAccepted ==
    Returned_("validate_audio_file") =>
        /\ ret.raised = "" <=>
                /\ 0 < call.arg.size /\ call.arg.size <= 10 * 1024 * 1024
                /\ MimeAccepted(call.arg.content_type)
                        \/ ExtensionAccepted(call.arg.filename)
        /\ ret.raised \in {"", "AudioValidationError"}
        /\ calls = <<>>
        /\ store = NoStore

\* a clip of exactly the ceiling with a foreign MIME type was accepted on
\* its extension
C9_Witness ==
    /\ Returned_("validate_audio_file")
    /\ call.arg.size = 10 * 1024 * 1024
    /\ call.arg.content_type = PyStr("video/mp4")
    /\ call.arg.filename = PyStr("A.WAV")
    /\ ret.raised = ""

\* every date word of the three dictionaries
AllDateWords == ENGLISH_DATE_WORDS \o RUSSIAN_DATE_WORDS \o ARMENIAN_DATE_WORDS

\* the utterance as parse_armenian_date reads it
Utterance == Strip(Lower(call.arg.text))

\* the relative day words and the weekday names that stand in the utterance
RelativeWordsIn ==
    {k \in 1..Len(AllDateWords) :
        AllDateWords[k].value.t = "num" /\ Contains(Utterance, AllDateWords[k].word)}

WeekdayNamesIn ==
    {k \in 1..Len(AllDateWords) :
        AllDateWords[k].value.t = "str" /\ Contains(Utterance, AllDateWords[k].word)}

\* the date returned is today + days
ReturnedDay(days) ==
    ret.raised = "" /\ ret.date.ok /\ ret.date.ord = call.arg.today + days

\* none of the five forms stands in the utterance
NothingMatches ==
    /\ RelativeWordsIn = {} /\ WeekdayNamesIn = {}
    /\ ThroughSearch(Utterance) = 0
    /\ ~MonthSearch(Utterance, call.arg.today, 1).ok
    /\ \A i \in 1..Len(call.arg.text) : ~NumericDateAt(call.arg.text, i).ok

\* C19: parse_armenian_date resolves a date by the first match in a fixed
\* order: relative day word, then weekday name, then "in N days", then month
\* name + day number, then numeric DD.MM[.YYYY]; an utterance with both a
\* relative day word and a weekday name, in any locale, resolves to today +
\* the relative word's offset; when nothing matches the result is absent.
C19_RelativeWordFirst ==
    Returned_("parse_armenian_date") =>
        /\ RelativeWordsIn # {} =>
                \E k \in RelativeWordsIn : ReturnedDay(AllDateWords[k].value.m \div 100)
        /\ RelativeWordsIn = {} /\ WeekdayNamesIn # {} =>
                \E k \in WeekdayNamesIn, days \in 1..14 :
                    /\ ReturnedDay(days)
                    /\ Weekday(ret.date.ord) = DAY_NAME_TO_WEEKDAY[AllDateWords[k].value.s]
        /\ NothingMatches => ret.raised = "" /\ ~ret.date.ok

\* the weekdays named in the utterance
WeekdaysNamed == {DAY_NAME_TO_WEEKDAY[AllDateWords[k].value.s] : k \in WeekdayNamesIn}

\* the utterance names one weekday and holds no relative day word
ResolvedByWeekday ==
    /\ Returned_("parse_armenian_date")
    /\ RelativeWordsIn = {}
    /\ Cardinality(WeekdaysNamed) = 1

\* the days from today to the first day strictly after it with the weekday
\* named: 1 to 7
DaysToNamed ==
    (((CHOOSE w \in WeekdaysNamed : TRUE) - Weekday(call.arg.today) + 6) % 7) + 1

\* a "next" qualifier stands in the utterance
NextQualified ==
    \E w \in {"hajord", "hachord", "sleduyushiy", "next"} : Contains(Utterance, w)

\* C20: for an utterance resolved by a weekday name, for every value of
\* today's weekday: without a "next" qualifier the result is today + k with
\* 1 <= k <= 7, the first occurrence of that weekday strictly after today;
\* with a "next" qualifier (hajord, hachord, sleduyushiy, next) and k < 7 the
\* result is today + k + 7.
C20_WeekdayAhead ==
    ResolvedByWeekday =>
        /\ DaysToNamed \in 1..7
        /\ ~NextQualified => ReturnedDay(DaysToNamed)
        /\ NextQualified /\ DaysToNamed < 7 => ReturnedDay(DaysToNamed + 7)

\* "friday" said on a Friday: the Friday a week later
C20_Witness ==
    /\ ResolvedByWeekday
    /\ call.arg.text = "friday"
    /\ Weekday(call.arg.today) = 4
    /\ ReturnedDay(7)

\* the day, month and year said in the utterances that hold a month name
\* with a day or a numeric date (year 0: none said)
Said(text, day, month, year) == [text |-> text, day |-> day, month |-> month, year |-> year]

SaidDates ==
    {Said("5 january", 5, 1, 0), Said("6 january", 6, 1, 0), Said("12 january", 12, 1, 0),
     Said("january 7", 7, 1, 0), Said("7 hunvari", 7, 1, 0), Said("7 yanvar", 7, 1, 0),
     Said("05.01", 5, 1, 0), Said("06.01", 6, 1, 0), Said("9/1", 9, 1, 0),
     Said("25.12", 25, 12, 0), Said("25.12.2025", 25, 12, 2025),
     Said("25.12.2024", 25, 12, 2024), Said("25.12.24", 25, 12, 2024),
     Said("05.01.2025", 5, 1, 2025), Said("31.02", 31, 2, 0), Said("30 february", 30, 2, 0),
     Said("29.02", 29, 2, 0), Said("29 february", 29, 2, 0), Said("32.01", 32, 1, 0),
     Said("15.13", 15, 13, 0), Said("28.02", 28, 2, 0), Said("1 march", 1, 3, 0),
     Said("29.02.2023", 29, 2, 2023)}

\* that day and month in the given year, or no date
InYear(said, year) ==
    IF ValidYmd(year, said.month, said.day) THEN ADate(Ordinal(year, said.month, said.day))
    ELSE NoDate

\* the date the utterance stands for on that day
DateMeant(said, today) ==
    IF said.year # 0 THEN InYear(said, said.year)
    ELSE IF ~InYear(said, YearOf(today)).ok THEN NoDate
    ELSE IF InYear(said, YearOf(today)).ord >= today THEN InYear(said, YearOf(today))
    ELSE InYear(said, YearOf(today) + 1)

\* C21: for a month-name + day utterance and for a numeric DD.MM utterance
\* without year, parse_armenian_date returns that day and month in today's
\* year when that date is not before today and in the following year
\* otherwise, so the result is never before today; with an explicit year no
\* rollover is applied; a day/month that is not a calendar date yields
\* absent.
C21_ThisOrNextYear ==
    Returned_("parse_armenian_date") =>
        \A said \in SaidDates :
            call.arg.text = said.text =>
                /\ ret.raised = ""
                /\ ret.date = DateMeant(said, call.arg.today)
                /\ said.year = 0 /\ ret.date.ok => ret.date.ord >= call.arg.today

\* "5 january" said after the fifth of January 2025: the fifth of January 2026
C21_Witness ==
    /\ Returned_("parse_armenian_date")
    /\ call.arg.text = "5 january"
    /\ call.arg.today > Ordinal(2025, 1, 5)
    /\ ret.date = ADate(Ordinal(2026, 1, 5))

\* the count of days each "in N days" and "in N weeks" utterance stands for
InDays(text, days) == [text |-> text, days |-> days]

SaidCounts ==
    {InDays("in 3 days", 3), InDays("cherez 2 dney", 2), InDays("mech 3 or", 3),
     InDays("through 10 days", 10), InDays("in 3 weeks", 21), InDays("in 1 week", 7)}

\* C22: parse_armenian_date resolves a localized "in N days" phrase (mech /
\* cherez / through / in, N, then or / orov / dney / day(s)) to today + N
\* days and a localized "in N weeks" phrase to today + 7*N days.
C22_InDaysAndWeeks ==
    Returned_("parse_armenian_date") =>
        \A said \in SaidCounts : call.arg.text = said.text => ReturnedDay(said.days)

\* the amount each text stands for when the forms are tried in the order
\* thousands groups, number with multiplier word, plain number
Amount(text, amount) == [text |-> text, amount |-> amount]

SaidAmounts ==
    {Amount("300.000 dram", 300000), Amount("300,000 AMD", 300000), Amount("25,000", 25000),
     Amount("1.234.567", 1234567), Amount("1.000", 1000),
     Amount("300.000 hazar", 300000), Amount("2 hazar 300.000", 300000),
     Amount("7 5.000", 5000),
     Amount("300 hazar dram", 300000), Amount("300 hazar", 300000), Amount("300k", 300000),
     Amount("1 million", 1000000), Amount("2 million", 2000000),
     Amount("50 tysyach", 50000), Amount("3 hundred", 300), Amount("1.5 thousand", 1500),
     Amount("1.5 million", 1500000), Amount("2.3 hundred", 230), Amount("2.3 haryur", 230),
     Amount("4.35 hundred", 435), Amount("pay 300 hazar now", 300000),
     Amount("3 ~h~a~z~a~r", 3000), Amount("5 ^t^y^s", 5000), Amount("20 5 hazar", 5000),
     Amount("7", 7), Amount("20000 dramov", 20000), Amount("25.50", 25), Amount("25.5", 25),
     Amount("1,5", 1), Amount("0", 0), Amount("tooth 36", 36), Amount("12 mart", 12)}

\* the text holds no digit
NoDigits(text) == \A i \in 1..Len(text) : ~IsDigit(CharAt(text, i))

\* C23: normalize_amount returns the value of the first applicable form,
\* tried in this order: thousands-grouped literal (digit groups joined by
\* "." or "," concatenated), then number + multiplier word (number times
\* 100, 1000 or 1000000), then plain literal (a 3-digit fractional part means
\* thousands, any other decimal is truncated); for a text with no digits it
\* returns None with an empty warning list.
C23_AmountForms ==
    Returned_("normalize_amount") =>
        /\ \A said \in SaidAmounts :
                call.arg.text = said.text => ret.amount = PyInt(said.amount)
        /\ NoDigits(call.arg.text) => ret.amount = PyNone /\ ret.warnings = <<>>

\* texts with two numbers, each followed by a multiplier word of another
\* language, and the amount the pair of each locale gives
Pairs(text, hy, ru, en) == [text |-> text, hy |-> hy, ru |-> ru, en |-> en]

\* 0: the text has no multiplier word of that locale
SaidPairs ==
    {Pairs("5 hazar 3 thousand", 5000, 0, 3000), Pairs("3 thousand 5 hazar", 5000, 0, 3000),
     Pairs("5 hazar 3 tysyach", 5000, 3000, 0), Pairs("3 tysyach 5 hazar", 5000, 3000, 0),
     Pairs("5 tysyach 3 thousand", 0, 5000, 3000), Pairs("3 thousand 5 tysyach", 0, 5000, 3000)}

\* C24: in the number + multiplier-word step of normalize_amount, when the
\* text contains one number followed by a multiplier word of the active
\* locale and another number followed by a multiplier word of a different
\* language, the pair using the active locale's word determines the returned
\* amount, for each of the locales hy, ru and en.
C24_ActiveLocaleFirst ==
    Returned_("normalize_amount") =>
        \A said \in SaidPairs :
            call.arg.text = said.text /\ said[call.arg.locale] # 0 =>
                ret.amount = PyInt(said[call.arg.locale])

-----------------------------------------------------------------------------
(* Properties of the router (SpecAction) *)

\* the confidence the call carries, a missing one counting as 0.0
GivenConfidence == GetOr(call.arg.parsed.confidence, Dbl(0, 0))

\* C1: a call of apply_voice_action whose confidence is below 0.75 returns
\* performed_action "none", updated null and needs_confirmation true, and
\* issues no read and no write to the store, whatever the action tag.
C1_ConfidenceGate ==
    Returned_("apply_voice_action") /\ FLt(GivenConfidence, Dbl(75, 0)) =>
        /\ ret.raised = ""
        /\ ret.result.performed_action = "none"
        /\ ret.result.updated = PyNone
        /\ ret.result.needs_confirmation
        /\ calls = <<>>
        /\ store = call.arg.store

\* a complete payment command just below the threshold was turned away
C1_Witness ==
    /\ Returned_("apply_voice_action")
    /\ call.arg.parsed.confidence = Dbl(75, -12800)
    /\ call.arg.parsed.action = PyStr("create_payment")
    /\ call.arg.parsed.payment # PyMissing
    /\ call.arg.parsed.payment # PyNone
    /\ call.arg.parsed.payment.amount = PyInt(20000)
    /\ ret.result.performed_action = "none"
    /\ calls = <<>>

\* C2: one invocation of apply_voice_action issues at most one write to the
\* store (create_visit, create_payment, update_patient, create_medication),
\* for every action tag, add_medication with several medications included.
C2_AtMostOneWrite ==
    Returned_("apply_voice_action") => Len(Writes(calls)) <= 1

\* the call went past the confidence gate to the handler of `action`
Dispatched(action) ==
    /\ Returned_("apply_voice_action")
    /\ ~FLt(GivenConfidence, Dbl(75, 0))
    /\ call.arg.parsed.action = PyStr(action)

\* the amount of the call as a number: the number itself, or the number a
\* string spells
GivenAmount == FloatOf(Field(call.arg.parsed, "payment", "amount"))

\* payment.amount is a finite positive number
AmountFinitePositive ==
    GivenAmount.ok /\ GivenAmount.v.t = "num" /\ GivenAmount.v.m > 0

\* the payment row the call is to write
PaymentDue ==
    [id |-> Len(call.arg.store.payments) + 1, doctor_id |-> call.arg.doctor_id,
     patient_id |-> call.arg.patient_id, amount |-> GivenAmount.v,
     currency |-> IF Truthy(Field(call.arg.parsed, "payment", "currency"))
                  THEN Field(call.arg.parsed, "payment", "currency")
                  ELSE PyStr("AMD"),
     comment |-> Field(call.arg.parsed, "payment", "comment"),
     paid_at |-> IF Truthy(Field(call.arg.parsed, "visit", "visit_date"))
                 THEN Field(call.arg.parsed, "visit", "visit_date")
                 ELSE PyStr("2025-01-06")]

\* C11: a create_payment dispatch writes a payment only when payment.amount
\* is a finite positive number; with an amount that is missing, zero,
\* negative, non-numeric or not finite it issues no write and returns
\* performed_action "none" with needs_confirmation true; when it writes, it
\* writes exactly one payment record, the currency defaulting to AMD and
\* the paid-on date being the visit date if present, else today.
C11_PaymentOnlyWhenPositive ==
    Dispatched("create_payment") =>
        IF AmountFinitePositive
        THEN /\ calls = <<"create_payment">>
             /\ ret.raised = "" =>
                    /\ store = [call.arg.store EXCEPT !.payments = Append(@, PaymentDue)]
                    /\ ret.result.performed_action = "create_payment"
             /\ ret.raised # "" => store = call.arg.store
        ELSE /\ calls = <<>>
             /\ store = call.arg.store
             /\ ret.raised = ""
             /\ ret.result.performed_action = "none"
             /\ ret.result.needs_confirmation

\* the note text of the call: note, else the notes of the visit, else notes
GivenNote ==
    Or(GetOr(call.arg.parsed.note, PyNone),
       Or(Field(call.arg.parsed, "visit", "notes"), GetOr(call.arg.parsed.notes, PyNone)))

\* the patient of the call as the store had it
GivenPatient == GetPatient(call.arg.store, call.arg.patient_id)

\* the patient exists and belongs to the requesting doctor
OwnPatientGiven == GivenPatient # PyNone /\ GivenPatient.doctor_id = call.arg.doctor_id

\* the store differs from the one of the call in the notes of the patient
\* at most
OnlyNotesChanged ==
    /\ OwnPatientGiven
    /\ store = [call.arg.store EXCEPT
                    !.patients[call.arg.patient_id].notes = store.patients[call.arg.patient_id].notes]

\* C12: an add_note dispatch with non-empty note text reads the patient
\* first and updates the patient's notes only if the patient exists and its
\* doctor_id equals the requesting doctor; if the patient is missing or
\* owned by another doctor it raises VoiceActionError and the store is
\* unchanged; with empty note text it issues neither read nor write and
\* returns performed_action "none".
C12_NoteOnlyForOwnPatient ==
    Dispatched("add_note") =>
        IF Truthy(GivenNote)
        THEN /\ calls # <<>> /\ calls[1] = "get_patient"
             /\ Writes(calls) # <<>> => OwnPatientGiven /\ Writes(calls) = <<"update_patient">>
             /\ store # call.arg.store => OnlyNotesChanged
             /\ ~OwnPatientGiven =>
                    /\ ret.raised = "VoiceActionError"
                    /\ store = call.arg.store
        ELSE /\ calls = <<>>
             /\ store = call.arg.store
             /\ ret.raised = ""
             /\ ret.result.performed_action = "none"

\* a note for the patient of another doctor was refused after the read
C12_Witness ==
    /\ Dispatched("add_note")
    /\ Truthy(GivenNote)
    /\ GivenPatient # PyNone
    /\ GivenPatient.doctor_id = "d2"
    /\ calls = <<"get_patient">>
    /\ ret.raised = "VoiceActionError"
    /\ store = call.arg.store

\* the next-visit date and the notes of the visit of the call
GivenNextVisit == Field(call.arg.parsed, "visit", "next_visit_date")
GivenVisitNotes == Field(call.arg.parsed, "visit", "notes")

\* the same call as an add_note on the notes of the visit
AsAddNote ==
    ApplyVoiceAction(call.arg.store, <<>>, call.arg.fail_at, call.arg.doctor_id,
                     call.arg.patient_id,
                     [t |-> "dict", action |-> PyStr("add_note"),
                      confidence |-> call.arg.parsed.confidence,
                      note |-> GivenVisitNotes, notes |-> PyMissing, visit |-> PyMissing])

\* the visits of the store are those of the call and one more, on the
\* next-visit date, scheduled
OneVisitScheduled ==
    /\ Len(store.visits) = Len(call.arg.store.visits) + 1
    /\ store = [call.arg.store EXCEPT !.visits = Append(@, store.visits[Len(store.visits)])]
    /\ store.visits[Len(store.visits)].visit_date = GivenNextVisit
    /\ store.visits[Len(store.visits)].status = PyStr("scheduled")
    /\ store.visits[Len(store.visits)].patient_id = call.arg.patient_id
    /\ store.visits[Len(store.visits)].doctor_id = call.arg.doctor_id

\* C13: an update_visit dispatch with a next-visit date creates exactly one
\* new visit row on that date with status scheduled and reports
\* performed_action "schedule_visit"; without one, if notes are present, it
\* behaves exactly as add_note on those notes; otherwise it issues no write
\* and returns performed_action "none" with needs_confirmation true.
C13_UpdateVisitBranches ==
    Dispatched("update_visit") =>
        IF Truthy(GivenNextVisit)
        THEN /\ calls = <<"create_visit">>
             /\ ret.raised = "" =>
                    /\ OneVisitScheduled
                    /\ ret.result.performed_action = "schedule_visit"
             /\ ret.raised # "" => store = call.arg.store
        ELSE IF Truthy(GivenVisitNotes)
        THEN /\ ret = [raised |-> AsAddNote.raised, result |-> AsAddNote.result]
             /\ store = AsAddNote.store
             /\ calls = AsAddNote.calls
        ELSE /\ calls = <<>>
             /\ store = call.arg.store
             /\ ret.raised = ""
             /\ ret.result.performed_action = "none"
             /\ ret.result.needs_confirmation

\* an update_visit that carried notes and a next-visit date scheduled the
\* visit and left the patient's notes alone
C13_Witness ==
    /\ Dispatched("update_visit")
    /\ Truthy(GivenNextVisit)
    /\ Truthy(GivenVisitNotes)
    /\ ret.raised = ""
    /\ ret.result.performed_action = "schedule_visit"
    /\ store.patients = call.arg.store.patients
    /\ Len(store.visits) = 1

\* the action tag the call carries, a missing one counting as "unknown"
GivenAction == GetOr(call.arg.parsed.action, PyStr("unknown")).s

\* the call returned an ActionResult
ResultReturned == Returned_("apply_voice_action") /\ ret.raised = ""

C29_RaisedLeavesStore ==
    Returned_("apply_voice_action") /\ ret.raised = "VoiceActionError" =>
        store = call.arg.store

-----------------------------------------------------------------------------
(* Properties of POST /voice/auto-parse (Spec) *)

\* the store call `name` was issued
Called(name) == \E i \in 1..Len(calls) : calls[i] = name

\* the request was answered with the record parsed_data built
Built == pc = "done" /\ frame.parsed # PyNone

\* C3: in auto-parse, whenever the inferred action is not create_payment,
\* payment.amount and payment.currency of the parsed record handed to
\* apply_voice_action are both null, whatever amount and currency the parse
\* result carried; a dispatch of create_visit, update_visit, update_patient
\* or add_note therefore never calls create_payment.
C3_GuardClearsPayment ==
    Built /\ frame.parsed.action # PyStr("create_payment") =>
        /\ frame.parsed.payment.amount = PyNone
        /\ frame.parsed.payment.currency = PyNone
        /\ ~Called("create_payment")

\* a parse result that carried a currency was committed as a visit, the
\* record handed over carrying none
C3_Witness ==
    /\ Built
    /\ frame.applied
    /\ frame.parsed.action = PyStr("create_visit")
    /\ frame.result.currency # PyNone
    /\ frame.parsed.payment.currency = PyNone
    /\ Called("create_visit")

\* the transcript holds a token of one of the two lists
Spoken(tokens, voice_tokens) ==
    \/ ContainsAny(Lower(frame.text.s), tokens)
    \/ ContainsAny(Lower(frame.text.s), voice_tokens)

\* parse_voice_text has returned its result
ParseReturned == pc = "commit" /\ Called("llm")

\* C7: when the transcript holds an AMD token (Latin, Russian script or
\* Armenian script) the currency parse_voice_text returns is never RUB, even
\* when the model's reply says RUB and the transcript holds a RUB token too;
\* with tokens of both kinds the currency is AMD and a warning is recorded.
C7_NeverRubWhenDramSpoken ==
    ParseReturned /\ Spoken(AMD_TOKENS, VOICE_AMD_TOKENS) =>
        /\ frame.result.currency # PyStr("RUB")
        /\ Spoken(RUB_TOKENS, VOICE_RUB_TOKENS) =>
                /\ frame.result.currency = PyStr("AMD")
                /\ frame.result.warnings # <<>>

\* C8: when the transcription is empty or whitespace only, process_voice
\* returns at once with text "", every structured field absent and exactly
\* one warning, and the language model is not called; in auto-parse the
\* result scores below the threshold, so that performed_action is "none",
\* needs_confirmation is true and nothing is written to the store.
C8_SilentClip ==
    frame.text = PyStr("") =>
        /\ pc # "llm" /\ ~Called("llm")
        /\ frame.result.text = ""
        /\ \A field \in {"visit_date", "next_visit_date", "diagnosis", "notes",
                         "amount", "currency"} : frame.result[field] = PyNone
        /\ Len(frame.result.warnings) = 1
        /\ pc = "done" =>
                /\ FLt(ret.confidence, Dbl(75, 0))
                /\ ret.result.performed_action = "none"
                /\ ret.needs_confirmation
                /\ ~frame.applied
                /\ Writes(calls) = <<>>
                /\ store = call.arg.store

\* a silent clip sent with auto_commit set was answered without a write
C8_Witness ==
    /\ pc = "done"
    /\ frame.text = PyStr("")
    /\ call.arg.auto_commit
    /\ Called("stt")
    /\ ret.result.performed_action = "none"
    /\ ret.needs_confirmation

\* C14: an exception raised by a store call made inside apply_voice_action
\* leaves apply_voice_action as a VoiceActionError and as no other type; in
\* auto-parse that error does not fail the request: the response carries
\* result.performed_action "error", result.updated null and
\* needs_confirmation true.
C14_StoreErrorAnswered ==
    pc = "done" /\ frame.applied =>
        /\ frame.raised \in {"", "VoiceActionError"}
        /\ frame.failed => frame.raised = "VoiceActionError"
        /\ frame.raised = "VoiceActionError" =>
                /\ ret.status = 200
                /\ ret.result.performed_action = "error"
                /\ ret.result.updated = PyNone
                /\ ret.result.needs_confirmation
                /\ ret.needs_confirmation

\* the insert of a visit failed and the request was answered with the error
C14_Witness ==
    /\ pc = "done"
    /\ frame.applied
    /\ frame.failed
    /\ calls[Len(calls)] = "create_visit"
    /\ store = call.arg.store
    /\ ret.status = 200
    /\ ret.result.performed_action = "error"

-----------------------------------------------------------------------------
(* The entry points that take a spoken language of auto, hy, ru or en:      *)
(* POST /voice/parse of api/ai.py (parse_voice_input, which runs            *)
(* process_voice_input of voice_ai_service) and POST /ai/voice/patient-parse *)
(* (parse_patient_voice, which calls transcribe_audio of voice_service       *)
(* itself). The clip is given by its size, declared MIME type and file      *)
(* name; calls collects the requests that reach the speech-to-text          *)
(* provider. parse_voice_input is taken in mode "note".                     *)

Language == {"auto", "hy", "ru", "en"}

EntryModes == {"note"}

EntrySizes ==
    {0, 50, 100, MAX_FILE_SIZE, MAX_FILE_SIZE + 1, MAX_AUDIO_SIZE, MAX_AUDIO_SIZE + 1}

EntryContentTypes == {PyNone, PyStr("audio/webm"), PyStr("text/plain")}

EntryFilenames == {PyNone, PyStr("a.wav"), PyStr("a.txt")}

EntryCalls ==
    {[fn |-> f,
      arg |-> [size |-> n, content_type |-> c, filename |-> name, language |-> l,
               mode |-> m, configured |-> k]] :
        f \in {"parse_voice_input", "parse_patient_voice"}, n \in EntrySizes,
        c \in EntryContentTypes, name \in EntryFilenames, l \in Language,
        m \in EntryModes, k \in BOOLEAN}

\* audio.filename or "audio.webm"
FilenameOr(filename) == IF Truthy(filename) THEN filename ELSE PyStr("audio.webm")

\* get_language_hint(language)
GetLanguageHint(language) ==
    CASE language = "hy" -> PyStr("hy")
      [] language = "ru" -> PyStr("ru")
      [] language = "en" -> PyStr("en")
      [] OTHER -> PyNone

\* the keyword arguments transcribe_audio of voice_ai_service hands to the
\* provider: language is among them only if the hint is truthy
HintedRequest(filename, language_hint) ==
    [op |-> "stt", file |-> filename,
     language |-> IF Truthy(language_hint) THEN language_hint ELSE PyMissing]

TranscribeAudioAsync(filename, language) ==
    HintedRequest(filename, GetLanguageHint(language))

\* language_map.get(locale, "ru") of transcribe_audio in voice_service
LanguageMap(locale) == IF locale \in {"ru", "hy", "en"} THEN locale ELSE "ru"

\* whisper_language of transcribe_audio in voice_service
WhisperLanguage(locale, language) ==
    IF language = PyNone THEN PyStr(LanguageMap(locale)) ELSE language

\* the request transcribe_audio of voice_service sends: language always given
TranscribeAudio(locale, filename, language) ==
    [op |-> "stt", file |-> filename, language |-> WhisperLanguage(locale, language)]

\* whisper_lang of parse_patient_voice
WhisperLang(language) == IF language # "auto" THEN PyStr(language) ELSE PyNone

\* the request each entry point sends for its clip; parse_patient_voice
\* leaves locale at its default
SttRequest(fn, arg) ==
    IF fn = "parse_voice_input"
    THEN TranscribeAudioAsync(FilenameOr(arg.filename), arg.language)
    ELSE TranscribeAudio("ru", FilenameOr(arg.filename), WhisperLang(arg.language))

InitEntry ==
    /\ pc = "request"
    /\ call \in EntryCalls
    /\ ret = PyNone
    /\ store = NoStore
    /\ calls = <<>>
    /\ frame = NoFrame

\* parse_voice_input up to the provider call: the configuration, the read
\* of the upload (a failing read is an unexpected error), validate_audio_file
VoiceAdmission(arg, fault) ==
    IF ~arg.configured THEN 501
    ELSE IF fault THEN 500
    ELSE IF ValidateAudioFile(arg.size, arg.content_type, FilenameOr(arg.filename)) # ""
    THEN 400
    ELSE 200

\* parse_patient_voice up to the provider call
PatientVoiceAdmission(arg, fault) ==
    IF fault THEN 400
    ELSE IF arg.size > MAX_AUDIO_SIZE THEN 413
    ELSE IF arg.size < 100 THEN 400
    ELSE IF ~arg.configured THEN 503
    ELSE 200

Admitted(status) ==
    /\ IF status = 200 THEN pc' = "stt" /\ UNCHANGED <<ret, frame>> ELSE Rejects(status)
    /\ UNCHANGED <<call, store, calls>>

ReceiveVoice ==
    /\ pc = "request"
    /\ call.fn = "parse_voice_input"
    /\ \E fault \in BOOLEAN : Admitted(VoiceAdmission(call.arg, fault))

ReceivePatientVoice ==
    /\ pc = "request"
    /\ call.fn = "parse_patient_voice"
    /\ \E fault \in BOOLEAN : Admitted(PatientVoiceAdmission(call.arg, fault))

\* the answers of parse_voice_input
VoiceParseResponse(arg, transcript, structured, warnings) ==
    [status |-> 200, mode |-> arg.mode, language |-> arg.language,
     transcript |-> transcript, structured |-> structured, warnings |-> warnings]

NoteDict(notes) == [t |-> "dict", notes |-> notes]

NoteData(note) == [t |-> "dict", note |-> note]

\* the replies of the language model in mode "note"
NoteReplies ==
    {InvalidReply, NoteData(PyMissing), NoteData(PyNone), NoteData(PyStr("x")),
     NoteData(NoteDict(PyMissing)), NoteData(NoteDict(PyNone)), NoteData(NoteDict(PyStr(""))),
     NoteData(NoteDict(PyStr("call back")))}

\* validate_and_fix_structured(mode, data) in mode "note"
NoteOf(data) == IF data.note.t = "dict" THEN data.note ELSE NoteDict(PyMissing)

FixedNote(data) ==
    IF data.note.t \in {"dict", "missing"} THEN data ELSE NoteData(NoteDict(PyMissing))

NoteWarnings(data) ==
    IF Truthy(GetOr(NoteOf(data).notes, PyNone)) THEN <<>>
    ELSE <<"No notes extracted from the recording">>

\* parse_transcript on a transcription that is empty
EmptyTranscript(arg) ==
    VoiceParseResponse(arg, "", NoteData(NoteDict(PyNone)), <<"Empty transcript">>)

\* the speech-to-text provider has answered parse_voice_input with text
VoiceHeard(text) ==
    /\ frame' = [frame EXCEPT !.text = PyStr(text)]
    /\ IF text = "" THEN pc' = "done" /\ ret' = EmptyTranscript(call.arg)
       ELSE pc' = "llm" /\ UNCHANGED ret

\* the provider has answered parse_patient_voice: the HTTPException raised
\* for an empty transcription is caught with every other exception
PatientVoiceHeard(text) ==
    IF text = "" THEN Rejects(500)
    ELSE /\ frame' = [frame EXCEPT !.text = PyStr(text)]
         /\ pc' = "llm"
         /\ UNCHANGED ret

\* the request reaches the provider, which answers or fails
Recognize ==
    /\ pc = "stt"
    /\ calls' = Append(calls, SttRequest(call.fn, call.arg))
    /\ IF call.fn = "parse_voice_input"
       THEN \/ Rejects(400)
            \/ \E response \in Transcriptions : VoiceHeard(Strip(response))
       ELSE \/ Rejects(500)
            \/ \E response \in Transcriptions : PatientVoiceHeard(Strip(response))
    /\ UNCHANGED <<call, store>>

PatientDict(first_name, last_name, phone, diagnosis, birth_date, notes) ==
    [t |-> "dict", first_name |-> first_name, last_name |-> last_name, phone |-> phone,
     diagnosis |-> diagnosis, birth_date |-> birth_date, notes |-> notes]

\* parsed = {}
NoPatient == PatientDict(PyMissing, PyMissing, PyMissing, PyMissing, PyMissing, PyMissing)

PatientReplies ==
    {InvalidReply, NoPatient,
     PatientDict(PyStr("Anna"), PyStr("Sargsyan"), PyStr("+37491123456"), PyStr("caries"),
                 PyStr("1990-05-01"), PyStr("allergy")),
     PatientDict(PyStr("Anna"), PyNone, PyNone, PyNone, PyNone, PyNone),
     PatientDict(PyStr("Anna"), PyMissing, PyStr("091123456"), PyMissing, PyMissing,
                 PyStr(""))}

\* the answer of parse_patient_voice
PatientVoiceParseResponse(arg, transcript, parsed) ==
    [status |-> 200, mode |-> "patient", language |-> arg.language,
     transcript |-> transcript,
     structured |-> [patient |-> [first_name |-> GetOr(parsed.first_name, PyNone),
                                  last_name |-> GetOr(parsed.last_name, PyNone),
                                  phone |-> GetOr(parsed.phone, PyNone),
                                  diagnosis |-> GetOr(parsed.diagnosis, PyNone),
                                  birth_date |-> GetOr(parsed.birth_date, PyNone)]],
     warnings |-> IF Truthy(GetOr(parsed.notes, PyNone))
                  THEN <<"Notes: " \o parsed.notes.s>> ELSE <<>>]

\* the language model answers (InvalidReply: or the call fails):
\* parse_voice_input turns a failure into 400, parse_patient_voice goes on
\* with an empty record
Extract ==
    /\ pc = "llm"
    /\ pc' = "done"
    /\ IF call.fn = "parse_voice_input"
       THEN \E reply \in NoteReplies :
              ret' = IF reply = InvalidReply THEN HttpError(400)
                     ELSE VoiceParseResponse(call.arg, frame.text.s, FixedNote(reply),
                                             NoteWarnings(reply))
       ELSE \E reply \in PatientReplies :
              ret' = PatientVoiceParseResponse(call.arg, frame.text.s,
                        IF reply = InvalidReply THEN NoPatient ELSE reply)
    /\ UNCHANGED <<call, store, calls, frame>>

NextEntry == ReceiveVoice \/ ReceivePatientVoice \/ Recognize \/ Extract

SpecEntry == InitEntry /\ [][NextEntry]_vars

-----------------------------------------------------------------------------
(* Properties of the entry points (SpecEntry)                               *)

\* the request that reached the provider, once one has
Sent == calls[1]

\* C15: a transcription request made with language "auto" reaches the
\* speech-to-text provider with no language hint, and one made with hy, ru
\* or en reaches it with exactly that code as hint, in every entry point
\* that accepts "auto".
C15_HintFollowsLanguage ==
    Len(calls) > 0 =>
        Sent.language = IF call.arg.language = "auto" THEN PyMissing
                        ELSE PyStr(call.arg.language)

\* the clip as the entry point hands it on: the upload's name, or audio.webm
GivenFilename == FilenameOr(call.arg.filename)

\* C18: in every entry point the speech-to-text provider is called only
\* after the clip has passed the audio validator's emptiness, size and
\* format checks: a clip whose MIME type and file extension are both outside
\* the accepted set never reaches transcription.
C18_ValidatedBeforeStt ==
    Len(calls) > 0 =>
        /\ ValidateAudioFile(call.arg.size, call.arg.content_type, GivenFilename) = ""
        /\ MimeAccepted(call.arg.content_type) \/ ExtensionAccepted(GivenFilename)

\* a currency field that is absent or one of the four codes
KnownCurrency(currency) ==
    currency = PyNone \/ (currency.t = "str" /\ currency.s \in {"AMD", "RUB", "USD", "EUR"})

\* the payment rows the request has inserted
Committed == {i \in 1..Len(store.payments) : i > Len(call.arg.store.payments)}

\* C16: the currency returned by parse_voice_text, and the payment.currency
\* committed by auto-parse, is always absent or one of AMD, RUB, USD, EUR,
\* whatever currency string the language model's reply contains.
C16_CurrencyKnown ==
    /\ ParseReturned => KnownCurrency(frame.result.currency)
    /\ pc = "done" /\ frame.applied =>
            \A i \in Committed : KnownCurrency(store.payments[i].currency)

\* the amounts of a reply that the claim calls zero, negative, fractional
\* below one or unparseable
BadAmounts == {PyInt(0), PyNum(-500), PyNum(50), PyStr("0.5"), PyStr("abc")}

\* a positive whole number
PositiveInteger(amount) == amount.t = "num" /\ amount.m > 0 /\ amount.m % 100 = 0

\* C17: the amount returned by parse_voice_text is always absent or a
\* strictly positive integer-valued number: a zero, negative,
\* fractional-below-one or unparseable amount in the language model's reply
\* is never returned as an amount (what is returned then is nothing, or the
\* amount spoken in the transcript).
C17_AmountPositiveInteger ==
    ParseReturned =>
        /\ frame.result.amount = PyNone \/ PositiveInteger(frame.result.amount)
        /\ frame.reply.amount \in BadAmounts =>
                frame.result.amount \in {PyNone, NormalizeAmount(frame.text.s, call.arg.locale)}

\* a reply with amount 0.5 came back from parse_voice_text with no amount
C17_Witness ==
    /\ ParseReturned
    /\ frame.reply.amount = PyNum(50)
    /\ frame.result.amount = PyNone

\* the request asked for auto-commit and its confidence reached the threshold
CommitAllowed == call.arg.auto_commit /\ ~FLt(frame.parsed.confidence, CONFIDENCE_THRESHOLD)

\* C26: auto-parse calls apply_voice_action, and so issues a store write,
\* only when auto_commit is true and the computed confidence is at least
\* 0.75; in every other case the result of the response has performed_action
\* "none", updated null and needs_confirmation true, and the store is as it
\* was.
C26_CommitOnlyWhenAllowed ==
    /\ pc # "done" \/ frame.parsed = PyNone =>
            ~frame.applied /\ Writes(calls) = <<>> /\ store = call.arg.store
    /\ Built =>
        /\ frame.applied => CommitAllowed
        /\ ~CommitAllowed =>
            /\ ret.status = 200
            /\ ret.result.performed_action = "none"
            /\ ret.result.updated = PyNone
            /\ ret.result.needs_confirmation
            /\ Writes(calls) = <<>>
            /\ store = call.arg.store

\* a confident payment command sent with auto_commit off was answered
\* without a write
C26_Witness ==
    /\ Built
    /\ ~call.arg.auto_commit
    /\ ~FLt(frame.parsed.confidence, CONFIDENCE_THRESHOLD)
    /\ frame.parsed.action = PyStr("create_payment")
    /\ ret.result.performed_action = "none"
    /\ store = call.arg.store

\* transcripts whose only numbers belong to a date phrase
DateOnlyTranscripts == {"next visit 25.12", "visit 5 january", "mech 3 or"}

\* the language model answered with amount null for such a transcript
DateOnlyHeard ==
    /\ pc \in {"commit", "done"}
    /\ frame.reply # PyNone
    /\ frame.reply # InvalidReply
    /\ frame.reply.amount = PyNone
    /\ frame.text.s \in DateOnlyTranscripts

\* C27: in auto-parse, when the reply of the language model has amount null
\* and the only numbers of the transcript belong to a date phrase ("25.12",
\* "5 january", "mech 3 or"), the amount of the result stays absent, the
\* request is not routed to create_payment and no payment record is written.
C27_DateNumbersAreNotAmounts ==
    DateOnlyHeard =>
        /\ frame.result.amount = PyNone
        /\ Built =>
            /\ frame.parsed.action # PyStr("create_payment")
            /\ Committed = {}
            /\ ~Called("create_payment")

-----------------------------------------------------------------------------
(* Two invocations of apply_voice_action that were dispatched to            *)
(* _handle_add_note (backend/app/services/voice_actions.py) against one     *)
(* store.  The handler reaches the store twice, to read the patient and to  *)
(* update the notes; each of the two is one request to the store, and the   *)
(* other invocation may run between them.  pc, call, ret and frame hold one *)
(* entry per invocation; frame is the patient the invocation read.          *)

Procs == {1, 2}

NoteInputs == {PyStr(""), PyStr("rinse"), PyStr("x-ray")}

\* parsed of an add_note command
NoteParsed(note) ==
    [t |-> "dict", note |-> note, notes |-> PyMissing, visit |-> PyMissing]

AddNoteCalls ==
    {[fn |-> "add_note",
      arg |-> [doctor_id |-> d, patient_id |-> "p1", parsed |-> NoteParsed(n)]] :
        d \in {"d1", "d2"}, n \in NoteInputs}

\* note_text = parsed.get("note") or parsed.get("visit").get("notes") or parsed.get("notes")
NoteText(parsed) ==
    Or(GetOr(parsed.note, PyNone), Or(Field(parsed, "visit", "notes"), GetOr(parsed.notes, PyNone)))

\* f"{current_notes}\n\n[{timestamp}] {note_text}".strip()
NewNotes(patient, note_text) ==
    Strip((IF Truthy(patient.notes) THEN patient.notes.s ELSE "")
          \o "\n\n[" \o NowStamp \o "] " \o note_text.s)

InitNotes ==
    /\ pc = [p \in Procs |-> "read"]
    /\ call \in [Procs -> AddNoteCalls]
    /\ ret = [p \in Procs |-> PyNone]
    /\ store \in Stores
    /\ calls = <<>>
    /\ frame = [p \in Procs |-> PyNone]

\* invocation p ends with what `out` tells
Ends(p, out) ==
    /\ pc' = [pc EXCEPT ![p] = "done"]
    /\ ret' = [ret EXCEPT ![p] = [raised |-> out.raised, result |-> out.result]]
    /\ store' = out.store
    /\ calls' = out.calls

\* invocation p with its read of the patient answered: it goes on to the
\* update when the patient is there and belongs to the doctor
PatientRead(p, ctx, patient) ==
    IF ctx.raised # "" THEN Ends(p, Wrapped(Raised(ctx, ctx.raised))) /\ UNCHANGED frame
    ELSE IF patient = PyNone \/ ~Owns(patient, call[p].arg.doctor_id)
    THEN Ends(p, Raised(ctx, "VoiceActionError")) /\ UNCHANGED frame
    ELSE /\ pc' = [pc EXCEPT ![p] = "write"]
         /\ frame' = [frame EXCEPT ![p] = patient]
         /\ calls' = ctx.calls
         /\ UNCHANGED <<ret, store>>

\* _handle_add_note up to the return of get_patient
ReadPatient(p) ==
    /\ pc[p] = "read"
    /\ IF ~Truthy(NoteText(call[p].arg.parsed))
       THEN Ends(p, NoneResult(Ctx(store, calls, 0), <<"note text is empty">>))
            /\ UNCHANGED frame
       ELSE \E fail_at \in {0, Len(calls) + 1} :
                PatientRead(p, Issue(Ctx(store, calls, fail_at), "get_patient", store),
                            GetPatient(store, call[p].arg.patient_id))
    /\ UNCHANGED call

\* invocation p with its update answered
NotesWritten(p, ctx) ==
    IF ctx.raised # "" THEN Ends(p, Wrapped(Raised(ctx, ctx.raised)))
    ELSE Ends(p, Returned(ctx, ActionResult("add_note",
                 [table |-> "patients", patient_id |-> call[p].arg.patient_id,
                  field |-> "notes"],
                 <<>>, FALSE)))

\* _handle_add_note from the patient it read to its return: the notes it
\* writes are the notes it read with the new note appended
WriteNotes(p) ==
    /\ pc[p] = "write"
    /\ \E fail_at \in {0, Len(calls) + 1} :
          NotesWritten(p, UpdatePatient(Ctx(store, calls, fail_at), call[p].arg.patient_id,
                                        call[p].arg.doctor_id,
                                        [notes |-> PyStr(NewNotes(frame[p],
                                                     NoteText(call[p].arg.parsed)))]))
    /\ UNCHANGED <<call, frame>>

NextNotes == \E p \in Procs : ReadPatient(p) \/ WriteNotes(p)

SpecNotes == InitNotes /\ [][NextNotes]_vars

-----------------------------------------------------------------------------
(* Properties of concurrent add_note invocations (SpecNotes) *)

\* invocation p returned add_note
NoteAdded(p) ==
    /\ pc[p] = "done"
    /\ ret[p].raised = ""
    /\ ret[p].result.performed_action = "add_note"

\* C28: when two add_note invocations for the same patient and doctor run
\* concurrently, in every interleaving of their reads and writes of the
\* store the notes of the patient afterwards contain both note texts.
C28_NoNoteLost ==
    (\A p \in Procs : NoteAdded(p)) /\ call[1].arg.doctor_id = call[2].arg.doctor_id =>
        \A p \in Procs :
            Contains(store.patients[call[p].arg.patient_id].notes.s,
                     NoteText(call[p].arg.parsed).s)

\* the request was answered with a response body
Responded == Built /\ ret.status = 200

\* C30: in every auto-parse response the top-level needs_confirmation equals
\* the needs_confirmation of its result, and it is false only if the request
\* wrote to the store, for every combination of auto_commit and confidence.
C30_ConfirmationAgrees ==
    Responded =>
        /\ ret.needs_confirmation = ret.result.needs_confirmation
        /\ ~ret.needs_confirmation => Writes(calls) # <<>> /\ store # call.arg.store

====
